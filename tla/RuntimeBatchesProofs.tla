------------------------- MODULE RuntimeBatchesProofs -------------------------
(***************************************************************************)
(* Theorems of RuntimeBatches, for every number of kdamonds and every      *)
(* bound.                                                                  *)
(*                                                                         *)
(* The argument is that a thread once lost never comes back: a new thread  *)
(* gets a pid no session knows.  So the identity that the end of an        *)
(* operation or of a batch finds was there all along, and what was         *)
(* published or committed meanwhile came from it.                          *)
(***************************************************************************)
EXTENDS RuntimeBatches, TLAPS

PCs == {"idle", "files", "threads", "closure", "inspect", "lookup", "identity", "command",
        "read", "confirm"}
AllCalls == Closures \cup {"cached", "commit", "inspect", "is_running"}
Outcomes == {"ok", "failed"}
Publications == [command : Nat, pid : Nat]
Values == [op : {"refresh", "cached"}, i : K, asked : Nat, read : Publications]
Txns == [call : AllCalls \cup {"none"}, scope : SUBSET K, again : BOOLEAN, at : K,
         outcome : Outcomes, ops : Nat, op : {"none", "refresh", "cached", "command", "commit"},
         i : K, asked : Nat, read : Publications, counted : 0 .. N, values : SUBSET Values,
         seen : BOOLEAN]

\* Every variable has its type; the session's pids are older than any new one.
KernelTypes ==
    /\ thread \in [K -> Nat] /\ nextPid \in Nat /\ N < nextPid /\ foreign \in BOOLEAN
    /\ published \in [K -> Publications] /\ committed \in [K -> BOOLEAN]
    /\ commands \in Nat /\ own \in [K -> 0 .. N] /\ rogue \in Nat
CallTypes ==
    /\ pc \in PCs /\ txn \in Txns /\ strayed \in BOOLEAN
    /\ result \in Outcomes \cup {"none", "lost", "error", "stopped", "running"}

\* Which call a step belongs to, and on which kdamonds.
CallInv ==
    pc # "idle" =>
        /\ txn.call \in AllCalls
        /\ txn.scope = K \/ txn.scope = {txn.i}
        /\ txn.call \in {"cached", "commit", "is_running"} => txn.scope = {txn.i}
        /\ txn.call \in {"cached", "commit"} => own[txn.i] # 0
        /\ txn.call = "inspect" => txn.scope = K /\ txn.i = 0
        /\ pc = "closure" => txn.call \in Closures
        /\ pc = "inspect" => txn.call = "inspect"
        /\ pc \in {"lookup", "identity", "command", "read", "confirm"} =>
              own[txn.i] # 0 /\ txn.i \in txn.scope /\ txn.call \in Closures \cup {"cached", "commit"}
        /\ pc \in {"lookup", "read"} =>
              txn.op \in {"refresh", "cached", "none"} /\ (txn.op = "none" <=> txn.call = "cached")
              /\ txn.call # "commit"
        /\ pc = "identity" => txn.op \in {"refresh", "command"} /\ txn.call \in Closures
        /\ pc = "command" =>
              txn.op \in {"refresh", "command", "commit"} /\ (txn.op = "commit" <=> txn.call = "commit")
              /\ txn.call # "cached"
        /\ pc = "confirm" => txn.op \in {"refresh", "cached", "command"} /\ txn.call \in Closures
        /\ txn.again => pc \in {"files", "threads"}
        /\ pc = "files" /\ txn.scope = K => txn.i = 0
        /\ pc = "threads" => txn.at \in txn.scope
        /\ pc \in {"files", "threads"} => txn.again \/ txn.op = "none"

\* A command that went astray leaves a lost kdamond behind, ahead of the last
\* verification.
StrayInv ==
    strayed =>
        /\ pc = "idle" => result \notin Outcomes
        /\ pc # "idle" =>
            /\ txn.call \in Closures \cup {"commit"}
            /\ pc \in {"files", "threads"} => txn.again
            /\ \E j \in txn.scope : /\ own[j] # 0 /\ thread[j] # own[j]
                                    /\ pc = "threads" => txn.at <= j

\* While the session has its thread, that thread published what there is to read.
FreshInv ==
    /\ \A i \in K : published[i].command <= commands
    /\ \A i \in K : own[i] # 0 /\ thread[i] = own[i] /\ published[i].command > 0 =>
                        published[i].pid = own[i]
    /\ pc = "read" /\ txn.op = "refresh" =>
            0 < txn.asked /\ txn.asked <= published[txn.i].command
    /\ pc = "confirm" /\ txn.op = "refresh" =>
            txn.asked <= txn.read.command /\ (thread[txn.i] = own[txn.i] => txn.read.pid = own[txn.i])
    /\ \A v \in txn.values :
            v.op = "refresh" => v.read.pid = own[v.i] /\ v.read.command >= v.asked

\* Foreign files that were read or handed over are still there, unless they were
\* put back.
FilesInv ==
    /\ foreign => rogue >= 1
    /\ txn.seen => foreign \/ rogue >= 2
    /\ txn.call = "commit" /\ pc = "files" /\ txn.again =>
            \A i \in txn.scope : committed[i] => foreign \/ rogue >= 2
    /\ Succeeded \/ (pc = "threads" /\ txn.again) =>
            /\ txn.seen => rogue >= 2
            /\ txn.call = "commit" => \A i \in txn.scope : committed[i] => rogue >= 2

Inv == KernelTypes /\ CallTypes /\ CallInv /\ StrayInv /\ FreshInv /\ FilesInv

-----------------------------------------------------------------------------
(* Steps that leave the kernel alone *)

Still == UNCHANGED <<kernelVars, own, rogue>>

\* A step that only goes on in the program preserves the types of the rest.
LEMMA ZeroInK == 0 \in K
  BY NAssumption DEF K

LEMMA StillTypes == ASSUME Inv, Still PROVE KernelTypes'
  BY DEF Inv, KernelTypes, Still, kernelVars

\* A call that learns of a loss, or of an error, ends with it.
LEMMA Fails ==
    ASSUME Inv, Still, pc # "idle", NEW r \in {"lost", "error"}, Return(r)
    PROVE  Inv'
<1> DEFINE t == [txn EXCEPT !.op = "none"]
<1>1. t \in Txns
  BY DEF Inv, CallTypes, Txns
<1>2. /\ t.call = txn.call /\ t.scope = txn.scope /\ t.values = txn.values /\ t.seen = txn.seen
      /\ t.i = txn.i /\ t.op = "none" /\ t.again = txn.again
  BY DEF Inv, CallTypes, Txns
<1> HIDE DEF t
<1>3. pc' = "idle" /\ txn' = t /\ result' = r /\ strayed' = strayed
  BY DEF Return, t
<1>4. KernelTypes' /\ CallTypes'
  BY <1>1, <1>3, StillTypes DEF Inv, CallTypes, PCs, Outcomes
<1>5. CallInv' /\ StrayInv'
  BY <1>3 DEF CallInv, StrayInv, Outcomes
<1>6. FreshInv'
  BY <1>2, <1>3 DEF Inv, FreshInv, Still, kernelVars
<1>7. FilesInv'
  BY <1>2, <1>3 DEF Inv, FilesInv, Succeeded, Still, kernelVars
<1> QED
  BY <1>4, <1>5, <1>6, <1>7 DEF Inv

\* An operation that fails leaves the closure to go on.
LEMMA OpFails ==
    ASSUME Inv, Still, pc \in {"lookup", "identity", "command", "read", "confirm"},
           NEW r \in {"lost", "error"}, OpFailed(r)
    PROVE  Inv'
<1>1. CASE txn.call \notin Closures
  BY <1>1, Fails DEF OpFailed
<1>2. CASE txn.call \in Closures
  <2> DEFINE t == [txn EXCEPT !.op = "none"]
  <2>1. t \in Txns
    BY DEF Inv, CallTypes, Txns
  <2>2. /\ t.call = txn.call /\ t.scope = txn.scope /\ t.values = txn.values /\ t.seen = txn.seen
        /\ t.i = txn.i /\ t.op = "none" /\ t.again = txn.again /\ t.at = txn.at
    BY DEF Inv, CallTypes, Txns
  <2> HIDE DEF t
  <2>3. pc' = "closure" /\ txn' = t /\ result' = result /\ strayed' = strayed
    BY <1>2 DEF OpFailed, Goto, t
  <2>4. KernelTypes' /\ CallTypes'
    BY <2>1, <2>3, StillTypes DEF Inv, CallTypes, PCs
  <2>5. CallInv'
    BY <1>2, <2>2, <2>3 DEF Inv, CallInv, Closures, AllCalls, Still
  <2>6. StrayInv'
    BY <1>2, <2>2, <2>3 DEF Inv, StrayInv, Still, kernelVars
  <2>7. FreshInv'
    BY <2>2, <2>3 DEF Inv, FreshInv, Still, kernelVars
  <2>8. FilesInv'
    BY <1>2, <2>2, <2>3 DEF Inv, FilesInv, Succeeded, Closures, Still, kernelVars
  <2> QED
    BY <2>4, <2>5, <2>6, <2>7, <2>8 DEF Inv
<1> QED
  BY <1>1, <1>2

-----------------------------------------------------------------------------
(* The verification *)

LEMMA CheckFilesStep == ASSUME Inv, CheckFiles PROVE Inv'
<1>1. pc = "files" /\ Still
  BY DEF CheckFiles, Look, Still
<1>2. CASE ~foreign /\ Goto("threads", [txn EXCEPT !.at = txn.i])
  <2> DEFINE t == [txn EXCEPT !.at = txn.i]
  <2>1. t \in Txns
    BY DEF Inv, CallTypes, Txns
  <2>2. /\ t.call = txn.call /\ t.scope = txn.scope /\ t.values = txn.values /\ t.seen = txn.seen
        /\ t.i = txn.i /\ t.op = txn.op /\ t.again = txn.again /\ t.at = txn.i
    BY DEF Inv, CallTypes, Txns
  <2> HIDE DEF t
  <2>3. pc' = "threads" /\ txn' = t /\ result' = result /\ strayed' = strayed
    BY <1>2 DEF Goto, t
  <2>4. KernelTypes' /\ CallTypes'
    BY <1>1, <2>1, <2>3, StillTypes DEF Inv, CallTypes, PCs
  <2>5. CallInv'
    BY <1>1, <2>2, <2>3, ZeroInK DEF Inv, CallInv, Still
  <2>6. ASSUME strayed
        PROVE  \E j \in txn.scope : own[j] # 0 /\ thread[j] # own[j] /\ txn.i <= j
    <3>1. PICK j \in txn.scope : own[j] # 0 /\ thread[j] # own[j]
      BY <1>1, <2>6 DEF Inv, StrayInv
    <3>2. txn.i \in K /\ j \in K /\ (txn.scope = K => txn.i = 0)
      BY <1>1 DEF Inv, CallTypes, CallInv, Txns
    <3>3. txn.i <= j
      BY <1>1, <3>2, NAssumption, SMT DEF Inv, CallInv, K
    <3> QED
      BY <3>1, <3>3
  <2>7. StrayInv'
    BY <1>1, <2>2, <2>3, <2>6 DEF Inv, StrayInv, Still, kernelVars
  <2>8. FreshInv'
    BY <1>1, <2>2, <2>3 DEF Inv, FreshInv, Still, kernelVars
  <2>9. FilesInv'
    BY <1>1, <1>2, <2>2, <2>3 DEF Inv, FilesInv, Succeeded, Still, kernelVars
  <2> QED
    BY <2>4, <2>5, <2>7, <2>8, <2>9 DEF Inv
<1>3. CASE Return("lost") \/ Return("error")
  BY <1>1, <1>3, Fails
<1> QED
  BY <1>2, <1>3 DEF CheckFiles, Look

\* The thread that was verified last is the last one of the scope.
LEMMA LastOfScope ==
    ASSUME Inv, pc = "threads", Passes(txn.at), ~(txn.scope = K /\ txn.at + 1 \in K)
    PROVE  ~strayed
<1> SUFFICES ASSUME strayed PROVE FALSE
  OBVIOUS
<1>1. PICK j \in txn.scope : own[j] # 0 /\ thread[j] # own[j] /\ txn.at <= j
  BY DEF Inv, StrayInv
<1>2. thread[txn.at] = own[txn.at]
  BY DEF Passes, Inv, StrayInv, Closures
<1>3. j # txn.at
  BY <1>1, <1>2
<1>4. txn.scope = K
  BY <1>1, <1>3 DEF Inv, CallInv
<1>5. txn.at \in K /\ j \in K
  BY <1>1, <1>4 DEF Inv, CallTypes, Txns
<1> QED
  BY <1>1, <1>3, <1>4, <1>5, NAssumption, SMT DEF K

LEMMA CheckThreadStep == ASSUME Inv, CheckThread PROVE Inv'
<1>1. pc = "threads" /\ Still
  BY DEF CheckThread, Look, Still
<1>2. CASE /\ Passes(txn.at) /\ txn.scope = K /\ txn.at + 1 \in K
           /\ Goto("threads", [txn EXCEPT !.at = @ + 1])
  <2> DEFINE t == [txn EXCEPT !.at = @ + 1]
  <2>1. t \in Txns
    BY <1>2 DEF Inv, CallTypes, Txns
  <2>2. /\ t.call = txn.call /\ t.scope = txn.scope /\ t.values = txn.values /\ t.seen = txn.seen
        /\ t.i = txn.i /\ t.op = txn.op /\ t.again = txn.again /\ t.at = txn.at + 1
    BY DEF Inv, CallTypes, Txns
  <2> HIDE DEF t
  <2>3. pc' = "threads" /\ txn' = t /\ result' = result /\ strayed' = strayed
    BY <1>2 DEF Goto, t
  <2>4. KernelTypes' /\ CallTypes'
    BY <1>1, <2>1, <2>3, StillTypes DEF Inv, CallTypes, PCs
  <2>5. CallInv'
    BY <1>1, <1>2, <2>2, <2>3 DEF Inv, CallInv, Still
  <2>6. ASSUME strayed
        PROVE  \E j \in txn.scope : own[j] # 0 /\ thread[j] # own[j] /\ txn.at + 1 <= j
    <3>1. PICK j \in txn.scope : own[j] # 0 /\ thread[j] # own[j] /\ txn.at <= j
      BY <1>1, <2>6 DEF Inv, StrayInv
    <3>2. thread[txn.at] = own[txn.at]
      BY <1>1, <1>2, <2>6 DEF Passes, Inv, StrayInv, Closures
    <3>3. j \in K /\ txn.at \in K
      BY <1>2 DEF Inv, CallTypes, Txns
    <3>4. txn.at + 1 <= j
      BY <3>1, <3>2, <3>3, NAssumption, SMT DEF K
    <3> QED
      BY <3>1, <3>4
  <2>7. StrayInv'
    BY <1>1, <2>2, <2>3, <2>6 DEF Inv, StrayInv, Still, kernelVars
  <2>8. FreshInv'
    BY <1>1, <2>2, <2>3 DEF Inv, FreshInv, Still, kernelVars
  <2>9. FilesInv'
    BY <1>1, <1>2, <2>2, <2>3 DEF Inv, FilesInv, Succeeded, Still, kernelVars
  <2> QED
    BY <2>4, <2>5, <2>7, <2>8, <2>9 DEF Inv
<1>3. CASE /\ Passes(txn.at) /\ ~(txn.scope = K /\ txn.at + 1 \in K)
           /\ Verified
  <2>1. ~strayed
    BY <1>1, <1>3, LastOfScope
  <2>2. CASE txn.again
    <3> DEFINE t == [txn EXCEPT !.op = "none"]
    <3>1. t \in Txns
      BY DEF Inv, CallTypes, Txns
    <3>2. /\ t.call = txn.call /\ t.scope = txn.scope /\ t.values = txn.values /\ t.seen = txn.seen
          /\ t.i = txn.i /\ t.op = "none" /\ t.again = txn.again
      BY DEF Inv, CallTypes, Txns
    <3> HIDE DEF t
    <3>3. pc' = "idle" /\ txn' = t /\ result' = txn.outcome /\ strayed' = strayed
      BY <1>3, <2>1, <2>2 DEF Verified, Return, t
    <3>4. KernelTypes' /\ CallTypes'
      BY <1>1, <2>1, <3>1, <3>3, StillTypes DEF Inv, CallTypes, PCs, Txns
    <3>5. CallInv' /\ StrayInv'
      BY <2>1, <3>3 DEF CallInv, StrayInv
    <3>6. FreshInv'
      BY <1>1, <3>2, <3>3 DEF Inv, FreshInv, Still, kernelVars
    <3>7. FilesInv'
      BY <1>1, <2>2, <3>2, <3>3 DEF Inv, FilesInv, Succeeded, Still, kernelVars
    <3> QED
      BY <3>4, <3>5, <3>6, <3>7 DEF Inv
  <2>3. CASE ~txn.again /\ txn.call \in Closures \cup {"cached", "inspect"}
    <3>1. /\ pc' = (IF txn.call \in Closures THEN "closure"
                    ELSE IF txn.call = "cached" THEN "lookup" ELSE "inspect")
          /\ txn' = txn /\ result' = result /\ strayed' = strayed
      BY <1>3, <2>1, <2>3 DEF Verified, Goto, Closures
    <3>2. KernelTypes' /\ CallTypes'
      BY <1>1, <2>1, <3>1, StillTypes DEF Inv, CallTypes, PCs
    <3>3. CallInv'
      BY <1>1, <2>3, <3>1 DEF Inv, CallInv, Still, Closures
    <3>4. StrayInv'
      BY <2>1, <3>1 DEF StrayInv
    <3>5. FreshInv'
      BY <1>1, <3>1 DEF Inv, FreshInv, Still, kernelVars
    <3>6. FilesInv'
      BY <1>1, <2>3, <3>1 DEF Inv, FilesInv, Succeeded, Still, kernelVars
    <3> QED
      BY <3>2, <3>3, <3>4, <3>5, <3>6 DEF Inv
  <2>4. CASE ~txn.again /\ txn.call = "commit"
    <3> DEFINE t == [txn EXCEPT !.op = "commit"]
    <3>1. t \in Txns
      BY DEF Inv, CallTypes, Txns
    <3>2. /\ t.call = txn.call /\ t.scope = txn.scope /\ t.values = txn.values /\ t.seen = txn.seen
          /\ t.i = txn.i /\ t.op = "commit" /\ t.again = txn.again
      BY DEF Inv, CallTypes, Txns
    <3> HIDE DEF t
    <3>3. pc' = "command" /\ txn' = t /\ result' = result /\ strayed' = strayed
      BY <1>3, <2>1, <2>4 DEF Verified, Goto, Closures, t
    <3>4. KernelTypes' /\ CallTypes'
      BY <1>1, <2>1, <3>1, <3>3, StillTypes DEF Inv, CallTypes, PCs
    <3>5. CallInv'
      BY <1>1, <2>4, <3>2, <3>3 DEF Inv, CallInv, Still, Closures
    <3>6. StrayInv'
      BY <2>1, <3>3 DEF StrayInv
    <3>7. FreshInv'
      BY <1>1, <3>2, <3>3 DEF Inv, FreshInv, Still, kernelVars
    <3>8. FilesInv'
      BY <1>1, <2>4, <3>2, <3>3 DEF Inv, FilesInv, Succeeded, Still, kernelVars
    <3> QED
      BY <3>4, <3>5, <3>6, <3>7, <3>8 DEF Inv
  <2>5. CASE ~txn.again /\ txn.call = "is_running"
    <3> DEFINE t == [txn EXCEPT !.op = "none"]
    <3>1. t \in Txns
      BY DEF Inv, CallTypes, Txns
    <3>2. /\ t.call = txn.call /\ t.scope = txn.scope /\ t.values = txn.values /\ t.seen = txn.seen
          /\ t.i = txn.i /\ t.op = "none" /\ t.again = txn.again
      BY DEF Inv, CallTypes, Txns
    <3> HIDE DEF t
    <3>3. pc' = "idle" /\ txn' = t /\ result' \in {"stopped", "running"} /\ strayed' = strayed
      BY <1>3, <2>1, <2>5 DEF Verified, Return, Closures, t
    <3>4. KernelTypes' /\ CallTypes'
      BY <1>1, <2>1, <3>1, <3>3, StillTypes DEF Inv, CallTypes, PCs
    <3>5. CallInv' /\ StrayInv'
      BY <2>1, <3>3 DEF CallInv, StrayInv
    <3>6. FreshInv'
      BY <1>1, <3>2, <3>3 DEF Inv, FreshInv, Still, kernelVars
    <3>7. FilesInv'
      BY <1>1, <3>2, <3>3 DEF Inv, FilesInv, Succeeded, Still, kernelVars
    <3> QED
      BY <3>4, <3>5, <3>6, <3>7 DEF Inv
  <2> QED
    BY <1>1, <2>2, <2>3, <2>4, <2>5 DEF Inv, CallInv, AllCalls
<1>4. CASE Return("lost") \/ Return("error")
  BY <1>1, <1>4, Fails
<1> QED
  BY <1>2, <1>3, <1>4 DEF CheckThread, Look

LEMMA ReadInspectedStep == ASSUME Inv, ReadInspected PROVE Inv'
<1>1. pc = "inspect" /\ Still
  BY DEF ReadInspected, Look, Still
<1>2. CASE Goto("files", [txn EXCEPT !.again = TRUE, !.seen = foreign])
  <2> DEFINE t == [txn EXCEPT !.again = TRUE, !.seen = foreign]
  <2>1. t \in Txns
    BY DEF Inv, KernelTypes, CallTypes, Txns
  <2>2. /\ t.call = txn.call /\ t.scope = txn.scope /\ t.values = txn.values /\ t.seen = foreign
        /\ t.i = txn.i /\ t.op = txn.op /\ t.again = TRUE /\ t.at = txn.at
    BY DEF Inv, CallTypes, Txns
  <2> HIDE DEF t
  <2>3. pc' = "files" /\ txn' = t /\ result' = result /\ strayed' = strayed
    BY <1>2 DEF Goto, t
  <2>4. KernelTypes' /\ CallTypes'
    BY <1>1, <2>1, <2>3, StillTypes DEF Inv, CallTypes, PCs
  <2>5. CallInv'
    BY <1>1, <2>2, <2>3 DEF Inv, CallInv, Still
  <2>6. StrayInv'
    BY <1>1, <2>2, <2>3 DEF Inv, CallInv, StrayInv, Closures
  <2>7. FreshInv'
    BY <1>1, <2>2, <2>3 DEF Inv, FreshInv, Still, kernelVars
  <2>8. FilesInv'
    BY <1>1, <2>2, <2>3 DEF Inv, CallInv, FilesInv, Succeeded, Still, kernelVars
  <2> QED
    BY <2>4, <2>5, <2>6, <2>7, <2>8 DEF Inv
<1>3. CASE Return("error")
  BY <1>1, <1>3, Fails
<1> QED
  BY <1>2, <1>3 DEF ReadInspected, Look

-----------------------------------------------------------------------------
(* The closure and its operations *)

LEMMA OperateStep == ASSUME Inv, Operate PROVE Inv'
<1>1. pc = "closure" /\ txn.ops > 0 /\ Still
  BY DEF Operate, Still, budgets
<1>2. PICK i \in Running \cap txn.scope, op \in {"refresh", "cached", "command"} :
        Goto(IF op = "command" THEN "identity" ELSE "lookup",
             [txn EXCEPT !.ops = @ - 1, !.op = op, !.i = i])
  BY DEF Operate
<1>3. i \in K /\ own[i] # 0 /\ txn.ops - 1 \in Nat
  BY <1>1, SMT DEF Running, Inv, CallTypes, Txns
<1> QED
  <2> DEFINE t == [txn EXCEPT !.ops = @ - 1, !.op = op, !.i = i]
  <2>1. t \in Txns
    BY <1>3 DEF Inv, CallTypes, Txns
  <2>2. /\ t.call = txn.call /\ t.scope = txn.scope /\ t.values = txn.values /\ t.seen = txn.seen
        /\ t.i = i /\ t.op = op /\ t.again = txn.again
        /\ t.at = txn.at /\ t.asked = txn.asked /\ t.read = txn.read
    BY <1>3 DEF Inv, CallTypes, Txns
  <2> HIDE DEF t
  <2>3. /\ pc' = (IF op = "command" THEN "identity" ELSE "lookup") /\ txn' = t
        /\ result' = result /\ strayed' = strayed
    BY <1>2 DEF Goto, t
  <2>4. KernelTypes' /\ CallTypes'
    BY <1>1, <2>1, <2>3, StillTypes DEF Inv, CallTypes, PCs
  <2>5. CallInv'
    BY <1>1, <2>2, <2>3, <1>3 DEF Inv, CallInv, Still, kernelVars, AllCalls, Closures
  <2>6. StrayInv'
    BY <1>1, <2>2, <2>3 DEF Inv, StrayInv, Still, kernelVars, CallInv, Closures
  <2>7. FreshInv'
    BY <1>1, <2>2, <2>3 DEF Inv, FreshInv, Still, kernelVars, KernelTypes, CallTypes, Publications, Txns, CallInv, Closures
  <2>8. FilesInv'
    BY <1>1, <2>2, <2>3 DEF Inv, FilesInv, Succeeded, Still, kernelVars, CallInv, Closures
  <2> QED
    BY <2>4, <2>5, <2>6, <2>7, <2>8 DEF Inv

LEMMA EndClosureStep == ASSUME Inv, EndClosure PROVE Inv'
<1>1. pc = "closure" /\ Still
  BY DEF EndClosure, Still, budgets
<1>2. PICK outcome \in Outcomes : Finish(outcome)
  BY DEF EndClosure, Outcomes
<1> DEFINE first == IF txn.scope = K THEN 0 ELSE txn.i
<1>3. first \in K /\ (txn.scope = K \/ txn.scope = {first})
  BY <1>1, ZeroInK DEF Inv, CallTypes, CallInv, Txns
<1> QED
  <2> DEFINE t == [txn EXCEPT !.again = TRUE, !.outcome = outcome, !.i = first]
  <2>1. t \in Txns
    BY <1>3 DEF Inv, CallTypes, Txns
  <2>2. /\ t.call = txn.call /\ t.scope = txn.scope /\ t.values = txn.values /\ t.seen = txn.seen
        /\ t.i = first /\ t.op = txn.op /\ t.again = TRUE
        /\ t.at = txn.at /\ t.asked = txn.asked /\ t.read = txn.read
    BY DEF Inv, CallTypes, Txns
  <2> HIDE DEF t
  <2>3. /\ pc' = "files" /\ txn' = t
        /\ result' = result /\ strayed' = strayed
    BY <1>2 DEF Finish, Goto, t
  <2>4. KernelTypes' /\ CallTypes'
    BY <1>1, <2>1, <2>3, StillTypes DEF Inv, CallTypes, PCs
  <2>5. CallInv'
    BY <1>1, <2>2, <2>3, <1>3 DEF Inv, CallInv, Still, kernelVars, AllCalls, Closures
  <2>6. StrayInv'
    BY <1>1, <2>2, <2>3 DEF Inv, StrayInv, Still, kernelVars, CallInv, Closures
  <2>7. FreshInv'
    BY <1>1, <2>2, <2>3 DEF Inv, FreshInv, Still, kernelVars, KernelTypes, CallTypes, Publications, Txns, CallInv, Closures
  <2>8. FilesInv'
    BY <1>1, <2>2, <2>3 DEF Inv, FilesInv, Succeeded, Still, kernelVars, CallInv, Closures
  <2> QED
    BY <2>4, <2>5, <2>6, <2>7, <2>8 DEF Inv

LEMMA LookupStep == ASSUME Inv, Lookup PROVE Inv'
<1> DEFINE next == Goto(IF txn.op = "refresh" THEN "identity" ELSE "read",
                        [txn EXCEPT !.counted = txn.i])
<1>1. pc = "lookup" /\ Still
  BY DEF Lookup, Look, Still, budgets
<1>2. CASE next
  <2> DEFINE t == [txn EXCEPT !.counted = txn.i]
  <2>1. t \in Txns
    BY NAssumption, SMT DEF Inv, CallTypes, Txns, K
  <2>2. /\ t.call = txn.call /\ t.scope = txn.scope /\ t.values = txn.values /\ t.seen = txn.seen
        /\ t.i = txn.i /\ t.op = txn.op /\ t.again = txn.again
        /\ t.at = txn.at /\ t.asked = txn.asked /\ t.read = txn.read
    BY DEF Inv, CallTypes, Txns
  <2> HIDE DEF t
  <2>3. /\ pc' = (IF txn.op = "refresh" THEN "identity" ELSE "read") /\ txn' = t
        /\ result' = result /\ strayed' = strayed
    BY <1>1, <1>2 DEF Goto, t
  <2>4. KernelTypes' /\ CallTypes'
    BY <1>1, <2>1, <2>3, StillTypes DEF Inv, CallTypes, PCs
  <2>5. CallInv'
    BY <1>1, <1>2, <2>2, <2>3, ZeroInK DEF Inv, CallInv, Still, kernelVars, AllCalls, Closures, CallTypes, Txns
  <2>6. StrayInv'
    BY <1>1, <1>2, <2>2, <2>3 DEF Inv, StrayInv, Still, kernelVars, CallInv, Closures
  <2>7. FreshInv'
    BY <1>1, <1>2, <2>2, <2>3 DEF Inv, FreshInv, Still, kernelVars, KernelTypes, CallTypes, Publications, Txns, CallInv, Closures
  <2>8. FilesInv'
    BY <1>1, <1>2, <2>2, <2>3 DEF Inv, FilesInv, Succeeded, Still, kernelVars, CallInv, Closures
  <2> QED
    BY <2>4, <2>5, <2>6, <2>7, <2>8 DEF Inv
<1>3. CASE OpFailed("error")
  BY <1>1, <1>3, OpFails
<1> QED
  BY <1>2, <1>3 DEF Lookup, Look

LEMMA VerifyIdentityStep == ASSUME Inv, VerifyIdentity PROVE Inv'
<1>1. pc = "identity" /\ Still
  BY DEF VerifyIdentity, Look, Still
<1>2. CASE Goto("command", txn)
  <2>1. /\ pc' = "command" /\ txn' = txn
        /\ result' = result /\ strayed' = strayed
    BY <1>2 DEF Goto
  <2>2. KernelTypes' /\ CallTypes'
    BY <1>1, <2>1, StillTypes DEF Inv, CallTypes, PCs
  <2>3. CallInv'
    BY <1>1, <2>1 DEF Inv, CallInv, Still, Closures
  <2>4. StrayInv'
    BY <1>1, <2>1 DEF Inv, StrayInv, Still, kernelVars
  <2>5. FreshInv'
    BY <1>1, <2>1 DEF Inv, FreshInv, Still, kernelVars
  <2>6. FilesInv'
    BY <1>1, <2>1 DEF Inv, FilesInv, Succeeded, Still, kernelVars
  <2> QED
    BY <2>2, <2>3, <2>4, <2>5, <2>6 DEF Inv
<1>3. CASE OpFailed("lost") \/ OpFailed("error")
  BY <1>1, <1>3, OpFails
<1> QED
  BY <1>2, <1>3 DEF VerifyIdentity, Look

LEMMA ReadValueStep == ASSUME Inv, ReadValue PROVE Inv'
<1> DEFINE last == txn.call = "cached"
<1> DEFINE next == Goto(IF last THEN "files" ELSE "confirm",
                        [txn EXCEPT !.read = published[txn.i], !.again = last])
<1>1. pc = "read" /\ Still
  BY DEF ReadValue, Look, Still
<1>2. CASE next
  <2> DEFINE t == [txn EXCEPT !.read = published[txn.i], !.again = (txn.call = "cached")]
  <2>1. t \in Txns
    BY DEF Inv, KernelTypes, CallTypes, Txns
  <2>2. /\ t.call = txn.call /\ t.scope = txn.scope /\ t.values = txn.values /\ t.seen = txn.seen
        /\ t.i = txn.i /\ t.op = txn.op /\ (t.again <=> (txn.call = "cached"))
        /\ t.at = txn.at /\ t.asked = txn.asked /\ t.read = published[txn.i]
    BY DEF Inv, CallTypes, Txns
  <2> HIDE DEF t
  <2>3. /\ pc' = (IF txn.call = "cached" THEN "files" ELSE "confirm") /\ txn' = t
        /\ result' = result /\ strayed' = strayed
    BY <1>1, <1>2 DEF Goto, t
  <2>4. KernelTypes' /\ CallTypes'
    BY <1>1, <2>1, <2>3, StillTypes DEF Inv, CallTypes, PCs
  <2>5. CallInv'
    BY <1>1, <1>2, <2>2, <2>3, ZeroInK DEF Inv, CallInv, Still, kernelVars, AllCalls, Closures, CallTypes, Txns
  <2>6. StrayInv'
    BY <1>1, <1>2, <2>2, <2>3 DEF Inv, StrayInv, Still, kernelVars, CallInv, Closures
  <2>7. FreshInv'
    BY <1>1, <1>2, <2>2, <2>3 DEF Inv, FreshInv, Still, kernelVars, KernelTypes, CallTypes, Publications, Txns, CallInv, Closures
  <2>8. FilesInv'
    BY <1>1, <1>2, <2>2, <2>3 DEF Inv, FilesInv, Succeeded, Still, kernelVars, CallInv, Closures
  <2> QED
    BY <2>4, <2>5, <2>6, <2>7, <2>8 DEF Inv
<1>3. CASE OpFailed("error")
  BY <1>1, <1>3, OpFails
<1> QED
  BY <1>2, <1>3 DEF ReadValue, Look

LEMMA ConfirmStep == ASSUME Inv, Confirm PROVE Inv'
<1>1. pc = "confirm" /\ Still
  BY DEF Confirm, Look, Still
<1> DEFINE value == [op |-> txn.op, i |-> txn.i, asked |-> txn.asked, read |-> txn.read]
<1>2. Delivered \subseteq Values /\ \A v \in Delivered : v \in txn.values \/ v = value
  BY <1>1, SMT DEF Delivered, Inv, CallTypes, CallInv, Txns, Values
<1>3. CASE thread[txn.i] = own[txn.i] /\ Goto("closure", [txn EXCEPT !.op = "none", !.values = Delivered])
  <2> DEFINE t == [txn EXCEPT !.op = "none", !.values = Delivered]
  <2>1. t \in Txns
    BY <1>2 DEF Inv, CallTypes, Txns
  <2>2. /\ t.call = txn.call /\ t.scope = txn.scope /\ t.values = Delivered /\ t.seen = txn.seen
        /\ t.i = txn.i /\ t.op = "none" /\ t.again = txn.again
        /\ t.at = txn.at /\ t.asked = txn.asked /\ t.read = txn.read
    BY DEF Inv, CallTypes, Txns
  <2> HIDE DEF t
  <2>3. /\ pc' = "closure" /\ txn' = t
        /\ result' = result /\ strayed' = strayed
    BY <1>1, <1>3 DEF Goto, t
  <2>4. KernelTypes' /\ CallTypes'
    BY <1>1, <2>1, <2>3, StillTypes DEF Inv, CallTypes, PCs
  <2>5. CallInv'
    BY <1>1, <1>3, <2>2, <2>3, ZeroInK DEF Inv, CallInv, Still, kernelVars, AllCalls, Closures, CallTypes, Txns
  <2>6. StrayInv'
    BY <1>1, <1>3, <2>2, <2>3 DEF Inv, StrayInv, Still, kernelVars, CallInv, Closures
  <2>7. FreshInv'
    BY <1>1, <1>3, <2>2, <2>3, <1>2 DEF Inv, FreshInv, Still, kernelVars, KernelTypes, CallTypes, Publications, Txns, CallInv
  <2>8. FilesInv'
    BY <1>1, <1>3, <2>2, <2>3 DEF Inv, FilesInv, Succeeded, Still, kernelVars, CallInv, Closures
  <2> QED
    BY <2>4, <2>5, <2>6, <2>7, <2>8 DEF Inv
<1>4. CASE OpFailed("lost") \/ OpFailed("error")
  BY <1>1, <1>4, OpFails
<1> QED
  BY <1>3, <1>4 DEF Confirm, Look

\* The command reaches the thread that runs then: it publishes under its pid, or
\* takes the configuration over.
LEMMA CommandReaches ==
    ASSUME Inv, pc = "command", Effect, AfterCommand, UNCHANGED <<own, result, rogue>>
    PROVE  Inv'
<1> DEFINE i == txn.i
<1> DEFINE news == [command |-> commands + 1, pid |-> thread[i]]
<1> DEFINE asks == txn.op = "refresh"
<1> DEFINE last == txn.op = "commit"
<1> DEFINE t == IF asks THEN [txn EXCEPT !.asked = commands + 1]
                ELSE IF last THEN [txn EXCEPT !.again = TRUE] ELSE txn
<1>1. /\ txn \in Txns /\ i \in K /\ i \in txn.scope /\ own[i] # 0 /\ commands + 1 \in Nat
      /\ txn.op \in {"refresh", "command", "commit"} /\ (last <=> txn.call = "commit")
      /\ news \in Publications
  BY DEF Inv, KernelTypes, CallTypes, CallInv, Txns, Publications
<1>2. /\ thread' = thread /\ nextPid' = nextPid /\ foreign' = foreign /\ commands' = commands + 1
      /\ published' = (IF last THEN published ELSE [published EXCEPT ![i] = news])
      /\ committed' = (IF last THEN [committed EXCEPT ![i] = foreign] ELSE committed)
      /\ (strayed' <=> strayed \/ thread[i] # own[i]) /\ strayed' \in BOOLEAN
  BY DEF Effect
<1>3. t \in Txns
  BY <1>1 DEF Txns
<1>4. /\ t.call = txn.call /\ t.scope = txn.scope /\ t.values = txn.values /\ t.seen = txn.seen
      /\ t.i = i /\ t.op = txn.op /\ t.again = (last \/ txn.again)
      /\ t.asked = (IF asks THEN commands + 1 ELSE txn.asked)
  BY <1>1 DEF Txns
<1> HIDE DEF t
<1>5. /\ pc' = (IF asks THEN "read" ELSE IF last THEN "files" ELSE "confirm") /\ txn' = t
      /\ own' = own /\ result' = result /\ rogue' = rogue
  BY <1>1 DEF AfterCommand, t
<1>6. KernelTypes'
  BY <1>1, <1>2, <1>5 DEF Inv, KernelTypes
<1>7. CallTypes'
  BY <1>2, <1>3, <1>5 DEF Inv, CallTypes, PCs
<1>8. CallInv'
  BY <1>1, <1>4, <1>5, ZeroInK DEF Inv, CallInv, AllCalls, Closures
<1>9. StrayInv'
  BY <1>1, <1>2, <1>4, <1>5 DEF Inv, CallInv, StrayInv, Closures
<1>10. FreshInv'
  BY <1>1, <1>2, <1>4, <1>5, SMT DEF Inv, FreshInv, KernelTypes, CallInv, Publications
<1>11. FilesInv'
  BY <1>1, <1>2, <1>4, <1>5 DEF Inv, FilesInv, Succeeded, CallInv, KernelTypes, Closures
<1> QED
  BY <1>6, <1>7, <1>8, <1>9, <1>10, <1>11 DEF Inv

LEMMA CommandStep == ASSUME Inv, Command PROVE Inv'
<1>1. CASE Effect /\ AfterCommand /\ UNCHANGED <<own, result, rogue>>
  BY <1>1, CommandReaches DEF Command
<1>2. CASE OpFailed("error") /\ Still
  BY <1>2, OpFails DEF Command
<1>3. CASE Goto("command", txn) /\ Still
  <2>1. Still /\ pc' = pc /\ txn' = txn /\ result' = result /\ strayed' = strayed
    BY <1>3 DEF Command, Goto
  <2>2. KernelTypes' /\ CallTypes' /\ CallInv'
    BY <2>1, StillTypes DEF Inv, CallTypes, CallInv, Still
  <2>3. StrayInv' /\ FreshInv' /\ FilesInv'
    BY <2>1 DEF Inv, StrayInv, FreshInv, FilesInv, Succeeded, Still, kernelVars
  <2> QED
    BY <2>2, <2>3 DEF Inv
<1> QED
  BY <1>1, <1>2, <1>3 DEF Command, Still

-----------------------------------------------------------------------------
(* The calls and the environment *)

\* A call starts from nothing, on the kdamonds it names.
LEMMA NoTxnType ==
    /\ NoTxn \in Txns
    /\ NoTxn.op = "none" /\ NoTxn.again = FALSE /\ NoTxn.values = {} /\ NoTxn.seen = FALSE
    /\ NoTxn.call = "none" /\ NoTxn.ops = 0
<1>1. Nothing \in Publications /\ Nothing.pid = 0 /\ Nothing.command = 0
  BY DEF Nothing, Publications
<1>2. N \in 0 .. N
  BY NAssumption
<1> QED
  BY <1>1, <1>2, ZeroInK DEF NoTxn, Txns, Outcomes

\* What a call knows when it begins.
Begins(t, name, S, i) ==
    /\ t \in Txns /\ t.call = name /\ t.scope = S /\ t.i = i
    /\ t.op = "none" /\ t.again = FALSE /\ t.values = {} /\ t.seen = FALSE

LEMMA CallBegins ==
    ASSUME NEW name \in AllCalls, NEW S \in SUBSET K, NEW i \in K
    PROVE  Begins(Call(name, S, i), name, S, i)
<1> DEFINE t == NoTxn
<1>1. t \in Txns /\ t.op = "none" /\ t.again = FALSE /\ t.values = {} /\ t.seen = FALSE
  BY NoTxnType
<1> HIDE DEF t
<1> DEFINE u == [t EXCEPT !.call = name, !.scope = S, !.at = i, !.i = i]
<1>2. u \in Txns
  BY <1>1 DEF Txns
<1>3. /\ u.call = name /\ u.scope = S /\ u.i = i
      /\ u.op = "none" /\ u.again = FALSE /\ u.values = {} /\ u.seen = FALSE
  BY <1>1 DEF Txns
<1> QED
  BY <1>2, <1>3 DEF Begins, Call, t

LEMMA BatchBegins ==
    ASSUME NEW name \in AllCalls, NEW S \in SUBSET K, NEW i \in K
    PROVE  Begins([Call(name, S, i) EXCEPT !.ops = MaxOps], name, S, i)
<1> DEFINE t == Call(name, S, i)
<1>1. Begins(t, name, S, i)
  BY CallBegins
<1> HIDE DEF t
<1> DEFINE u == [t EXCEPT !.ops = MaxOps]
<1>2. u \in Txns
  BY <1>1, OpsAssumption DEF Begins, Txns
<1>3. /\ u.call = name /\ u.scope = S /\ u.i = i
      /\ u.op = "none" /\ u.again = FALSE /\ u.values = {} /\ u.seen = FALSE
  BY <1>1 DEF Begins, Txns
<1> QED
  BY <1>2, <1>3 DEF Begins, t

LEMMA BeginStep ==
    ASSUME Inv, NEW t, NEW name \in AllCalls, NEW S \in SUBSET K, NEW i \in K,
           Begins(t, name, S, i), Begin(t),
           S = {i} \/ (S = K /\ i = 0),
           name \in {"cached", "commit"} => S = {i} /\ own[i] # 0,
           name = "is_running" => S = {i},
           name = "inspect" => S = K /\ i = 0
    PROVE  Inv'
<1>1. pc' = "files" /\ txn' = t /\ result' = "none" /\ strayed' = FALSE /\ Still
  BY DEF Begin, Still
<1>2. KernelTypes' /\ CallTypes'
  BY <1>1, StillTypes DEF CallTypes, PCs, Begins
<1>3. CallInv' /\ StrayInv'
  BY <1>1, ZeroInK DEF CallInv, StrayInv, Still, Begins
<1>4. FreshInv'
  BY <1>1 DEF Inv, FreshInv, Still, kernelVars, Begins
<1>5. FilesInv'
  BY <1>1 DEF Inv, FilesInv, Succeeded, Still, kernelVars, Begins
<1> QED
  BY <1>2, <1>3, <1>4, <1>5 DEF Inv

LEMMA CallsStep == ASSUME Inv, Calls PROVE Inv'
<1>1. ASSUME NEW name \in Closures, Batch(name) PROVE Inv'
  <2>1. name \in AllCalls /\ name \notin {"cached", "commit", "is_running", "inspect"}
    BY DEF AllCalls, Closures
  <2>2. ASSUME NEW i \in Running, Begin([Call(name, {i}, i) EXCEPT !.ops = MaxOps]) PROVE Inv'
    <3>1. i \in K /\ {i} \in SUBSET K
      BY DEF Running
    <3>2. Begins([Call(name, {i}, i) EXCEPT !.ops = MaxOps], name, {i}, i)
      BY <2>1, <3>1, BatchBegins
    <3> QED
      BY <2>1, <2>2, <3>1, <3>2, BeginStep
  <2>3. ASSUME Begin([Call(name, K, 0) EXCEPT !.ops = MaxOps]) PROVE Inv'
    <3>1. Begins([Call(name, K, 0) EXCEPT !.ops = MaxOps], name, K, 0)
      BY <2>1, BatchBegins, ZeroInK
    <3> QED
      BY <2>1, <2>3, <3>1, BeginStep, ZeroInK
  <2> QED
    BY <1>1, <2>2, <2>3 DEF Batch
<1>2. ASSUME NEW name \in {"cached", "commit"}, OneKdamond(name) PROVE Inv'
  <2>1. PICK i \in Running : Begin(Call(name, {i}, i))
    BY <1>2 DEF OneKdamond
  <2>2. i \in K /\ {i} \in SUBSET K /\ own[i] # 0 /\ name \in AllCalls
    BY DEF Running, AllCalls
  <2>3. Begins(Call(name, {i}, i), name, {i}, i)
    BY <2>2, CallBegins
  <2> QED
    BY <2>1, <2>2, <2>3, BeginStep
<1>3. ASSUME IsRunning PROVE Inv'
  <2>1. PICK i \in K : Begin(Call("is_running", {i}, i))
    BY <1>3 DEF IsRunning
  <2>2. {i} \in SUBSET K /\ "is_running" \in AllCalls
    BY DEF AllCalls
  <2>3. Begins(Call("is_running", {i}, i), "is_running", {i}, i)
    BY <2>2, CallBegins
  <2> QED
    BY <2>1, <2>2, <2>3, BeginStep
<1>4. ASSUME Inspect PROVE Inv'
  <2>1. "inspect" \in AllCalls /\ K \in SUBSET K
    BY DEF AllCalls
  <2>2. Begins(Call("inspect", K, 0), "inspect", K, 0)
    BY <2>1, CallBegins, ZeroInK
  <2> QED
    BY <1>4, <2>1, <2>2, BeginStep, ZeroInK DEF Inspect
<1> QED
  BY <1>1, <1>2, <1>3, <1>4 DEF Calls

\* What the environment does to the threads leaves a lost one lost.
LEMMA LostStays ==
    ASSUME Inv, UNCHANGED <<own, pc, txn, result, strayed>>,
           \A j \in K : own[j] # 0 /\ thread'[j] = own[j] => thread[j] = own[j]
    PROVE  CallInv' /\ StrayInv' /\ (UNCHANGED <<published, commands>> => FreshInv')
<1>1. CallInv'
  BY DEF Inv, CallInv
<1>2. strayed => txn.scope \subseteq K
  BY DEF Inv, CallTypes, Txns
<1>3. StrayInv'
  BY <1>2 DEF Inv, StrayInv
<1>4. txn.i \in K
  BY DEF Inv, CallTypes, Txns
<1>5. ASSUME UNCHANGED <<published, commands>> PROVE FreshInv'
  <2>1. \A j \in K : published[j].command <= commands
    BY DEF Inv, FreshInv
  <2>2. \A j \in K : own[j] # 0 /\ thread'[j] = own[j] /\ published[j].command > 0 =>
                        published[j].pid = own[j]
    BY DEF Inv, FreshInv
  <2>3. pc = "confirm" /\ txn.op = "refresh" =>
            txn.asked <= txn.read.command /\ (thread'[txn.i] = own[txn.i] => txn.read.pid = own[txn.i])
    BY <1>4 DEF Inv, FreshInv, CallInv
  <2> QED
    BY <1>5, <2>1, <2>2, <2>3 DEF Inv, FreshInv
<1> QED
  BY <1>1, <1>3, <1>5

LEMMA ThreadExitsStep == ASSUME Inv, NEW i \in K, ThreadExits(i) PROVE Inv'
<1>1. /\ thread' = [thread EXCEPT ![i] = 0]
      /\ UNCHANGED <<nextPid, foreign, published, committed, commands>>
      /\ UNCHANGED <<own, pc, txn, result, strayed, rogue>>
  BY DEF ThreadExits
<1>2. \A j \in K : own[j] # 0 /\ thread'[j] = own[j] => thread[j] = own[j]
  BY <1>1 DEF Inv, KernelTypes
<1>3. KernelTypes' /\ CallTypes'
  BY <1>1 DEF Inv, KernelTypes, CallTypes
<1>4. CallInv' /\ StrayInv' /\ FreshInv'
  BY <1>1, <1>2, LostStays
<1>5. FilesInv'
  BY <1>1 DEF Inv, FilesInv, Succeeded
<1> QED
  BY <1>3, <1>4, <1>5 DEF Inv

LEMMA RogueActsStep == ASSUME Inv, RogueActs PROVE Inv'
<1>1. rogue' = rogue + 1 /\ UNCHANGED <<committed, own, pc, txn, result, strayed>>
  BY DEF RogueActs
<1>2. CASE /\ \E i \in K : thread' = [thread EXCEPT ![i] = nextPid]
           /\ nextPid' = nextPid + 1 /\ UNCHANGED <<foreign, published, commands>>
  <2>1. PICK i \in K : thread' = [thread EXCEPT ![i] = nextPid]
    BY <1>2
  <2>2. KernelTypes' /\ CallTypes'
    BY <1>1, <1>2, <2>1, NAssumption DEF Inv, KernelTypes, CallTypes
  <2>3. own[i] # nextPid
    BY NAssumption, SMT DEF Inv, KernelTypes
  <2>4. \A j \in K : own[j] # 0 /\ thread'[j] = own[j] => thread[j] = own[j]
    BY <2>1, <2>3 DEF Inv, KernelTypes
  <2>5. CallInv' /\ StrayInv' /\ FreshInv'
    BY <1>1, <1>2, <2>4, LostStays
  <2>6. FilesInv'
    BY <1>1, <1>2 DEF Inv, FilesInv, Succeeded, KernelTypes
  <2> QED
    BY <2>2, <2>5, <2>6 DEF Inv
<1>3. CASE /\ \E i \in K : /\ thread[i] # 0
                           /\ published' = [published EXCEPT ![i] =
                                               [command |-> commands + 1, pid |-> thread[i]]]
           /\ commands' = commands + 1 /\ UNCHANGED <<thread, nextPid, foreign>>
  <2>1. PICK i \in K : published' = [published EXCEPT ![i] =
                                        [command |-> commands + 1, pid |-> thread[i]]]
    BY <1>3
  <2> DEFINE news == [command |-> commands + 1, pid |-> thread[i]]
  <2>2. news \in Publications /\ news.command = commands + 1 /\ news.pid = thread[i]
    BY DEF Inv, KernelTypes, Publications
  <2> HIDE DEF news
  <2>3. \A j \in K : published'[j] = IF j = i THEN news ELSE published[j]
    BY <2>1 DEF Inv, KernelTypes, news
  <2>4. KernelTypes' /\ CallTypes'
    BY <1>1, <1>3, <2>1, <2>2 DEF Inv, KernelTypes, CallTypes, news
  <2>5. CallInv' /\ StrayInv'
    BY <1>1, <1>3, LostStays
  <2>6. \A j \in K : published[j].command \in Nat
    BY DEF Inv, KernelTypes, Publications
  <2>7. txn.i \in K /\ txn.asked \in Nat
    BY DEF Inv, CallTypes, Txns
  <2>8. FreshInv'
    BY <1>1, <1>3, <2>2, <2>3, <2>6, <2>7, SMT DEF Inv, FreshInv, KernelTypes
  <2>9. FilesInv'
    BY <1>1, <1>3 DEF Inv, FilesInv, Succeeded, KernelTypes
  <2> QED
    BY <2>4, <2>5, <2>8, <2>9 DEF Inv
<1>4. CASE foreign' = ~foreign /\ UNCHANGED <<thread, nextPid, published, commands>>
  <2>1. KernelTypes' /\ CallTypes'
    BY <1>1, <1>4 DEF Inv, KernelTypes, CallTypes
  <2>2. CallInv' /\ StrayInv' /\ FreshInv'
    BY <1>1, <1>4, LostStays
  <2>3. FilesInv'
    BY <1>1, <1>4 DEF Inv, FilesInv, Succeeded, KernelTypes
  <2> QED
    BY <2>1, <2>2, <2>3 DEF Inv
<1> QED
  BY <1>2, <1>3, <1>4 DEF RogueActs

-----------------------------------------------------------------------------
(* The theorems *)

LEMMA InitHolds == ASSUME Init PROVE Inv
<1>1. /\ own \in [K -> 0 .. N] /\ \A i \in K : own[i] \in {0, i + 1}
      /\ thread = own /\ nextPid = N + 1 /\ foreign = FALSE /\ rogue = 0
      /\ published = [i \in K |-> Nothing] /\ committed = [i \in K |-> FALSE] /\ commands = 0
      /\ pc = "idle" /\ txn = NoTxn /\ result = "none" /\ strayed = FALSE
  BY DEF Init
<1>2. KernelTypes
  <2>1. Nothing \in Publications
    BY DEF Nothing, Publications
  <2>2. 0 .. N \subseteq Nat /\ N < N + 1 /\ N + 1 \in Nat
    BY NAssumption
  <2>3. thread \in [K -> Nat] /\ published \in [K -> Publications] /\ committed \in [K -> BOOLEAN]
    BY <1>1, <2>1, <2>2
  <2> QED
    BY <1>1, <2>2, <2>3 DEF KernelTypes
<1>3. CallTypes /\ CallInv /\ StrayInv
  BY <1>1, NoTxnType DEF CallTypes, CallInv, StrayInv, PCs
<1>4. FreshInv
  BY <1>1, NoTxnType DEF FreshInv, Nothing
<1>5. FilesInv
  BY <1>1, NoTxnType DEF FilesInv, Succeeded
<1> QED
  BY <1>2, <1>3, <1>4, <1>5 DEF Inv

LEMMA StepHolds == ASSUME Inv, [Next]_vars PROVE Inv'
<1>1. CASE Calls
  BY <1>1, CallsStep
<1>2. CASE Proceed
  BY <1>2, CheckFilesStep, CheckThreadStep, ReadInspectedStep, OperateStep, EndClosureStep,
     LookupStep, VerifyIdentityStep, CommandStep, ReadValueStep, ConfirmStep DEF Proceed
<1>3. CASE RogueActs \/ \E i \in K : ThreadExits(i)
  BY <1>3, RogueActsStep, ThreadExitsStep
<1>4. CASE UNCHANGED vars
  <2>1. Still /\ UNCHANGED <<pc, txn, result, strayed>>
    BY <1>4 DEF vars, budgets, Still
  <2>2. KernelTypes' /\ CallTypes' /\ CallInv'
    BY <2>1, StillTypes DEF Inv, CallTypes, CallInv, Still
  <2>3. StrayInv' /\ FreshInv' /\ FilesInv'
    BY <2>1 DEF Inv, StrayInv, FreshInv, FilesInv, Succeeded, Still, kernelVars
  <2> QED
    BY <2>2, <2>3 DEF Inv
<1> QED
  BY <1>1, <1>2, <1>3, <1>4 DEF Next

\* In every reachable state the calls and the kernel are as they should be.
THEOREM BatchesKeepInv == Spec => []Inv
<1>1. Init => Inv
  BY InitHolds
<1>2. Inv /\ [Next]_vars => Inv'
  BY StepHolds
<1> QED
  BY <1>1, <1>2, PTL DEF Spec

\* A refreshed value that a batch delivers was published by the session's own
\* thread, for the command of that operation or a later one (RuntimeBatch's
\* refreshed reads; verify_identity after each of them).
THEOREM RefreshedIsFresh == Spec => []FreshValues
<1>1. Inv => FreshValues
  BY DEF Inv, FreshInv, FreshValues
<1> QED
  BY <1>1, BatchesKeepInv, PTL

\* A command that reached somebody else's thread is reported as a loss or an
\* error, never as the closure's outcome (runtime_batch, commit).
THEOREM StraysAreReported == Spec => []StrayReported
<1>1. Inv => StrayReported
  BY DEF Inv, StrayInv, StrayReported, Outcomes
<1> QED
  BY <1>1, BatchesKeepInv, PTL

\* What configuration and capabilities read, and what commit hands over, is the
\* staged configuration, unless a controller wrote and put it back.
THEOREM ActsOnStaged == Spec => []ActsOnOwnFiles
<1>1. Inv => ActsOnOwnFiles
  BY SMT DEF Inv, KernelTypes, FilesInv, ActsOnOwnFiles, Succeeded
<1> QED
  BY <1>1, BatchesKeepInv, PTL
=============================================================================
