------------------------------- MODULE Enclave -------------------------------
(***************************************************************************)
(* The proof of luck: ecall_get_proof (Enclave.cpp) and the files that     *)
(* App.cpp keeps for it.  Several processes of one machine may run the     *)
(* enclave in one directory; each call of it is a run of the steps below.  *)
(* Processes may die between any two steps, and so between fopen(..., "w") *)
(* and the write of what the file is to hold.                              *)
(*                                                                         *)
(* Time is relative.  Each wait knows the seconds of trusted time since it *)
(* began, each draw the seconds since it was made.  When the time source   *)
(* changes (another nonce) trusted times before and after do not compare.  *)
(***************************************************************************)
EXTENDS Integers, Sequences, FiniteSets

CONSTANTS
    Enclaves,  \* processes that run the enclave
    MaxWait,   \* MAX_WAITING_TIME
    Scale,     \* a lucky number is n / Scale, UINT64_MAX in the code
    Lucks,     \* the numbers n that are drawn
    MaxCalls,  \* bound: calls of the enclave
    MaxNonces  \* bound: changes of the time source

ASSUME EnclaveAssumption ==
    /\ MaxWait \in Nat
    /\ Scale \in Nat \ {0}
    /\ Lucks \subseteq 0 .. Scale
    /\ MaxCalls \in Nat /\ MaxNonces \in Nat

VARIABLES
    call,      \* the call that each process is in
    file,      \* secretData.bin
    counters,  \* the monotonic counters of the platform
    keysTxt,   \* keys.txt: the keys that blocks are verified with
    publicKey, \* publicKey.txt: the key to share, none while it is written
    made,      \* history: how many keys were made, each of them a new one
    proof,     \* the last proof of each process
    calls,     \* calls so far
    callers,   \* history: the processes that have called
    nonces     \* changes of the time source so far

vars == <<call, file, counters, keysTxt, publicKey, made, proof, calls, callers, nonces>>

NoFile    == [mc |-> 0, key |-> 0, is |-> "absent"]
EmptyFile == [mc |-> 0, key |-> 0, is |-> "empty"]
NoKey     == 0
NoProof   == [key |-> NoKey]

\* mc and key are the struct keys, old is mcValueOld; ticket, the counter that
\* was incremented, since and rivals, the proofs others got meanwhile, only
\* say what happened.
Idle == [pc |-> "idle", mc |-> 0, key |-> NoKey, old |-> 0, luck |-> 0, slept |-> 0,
         changed |-> FALSE, ticket |-> 0, since |-> 0, rivals |-> {}]

\* round(MAX_WAITING_TIME - luckyNumber * MAX_WAITING_TIME)
WaitingPeriod(luck) == (2 * MaxWait * (Scale - luck) + Scale) \div (2 * Scale)

At(e, pc) == call[e].pc = pc
Goto(e, pc) == call' = [call EXCEPT ![e].pc = pc]

Init ==
    /\ call = [e \in Enclaves |-> Idle]
    /\ file = NoFile
    /\ counters = <<>>
    /\ keysTxt = {} /\ publicKey = NoKey /\ made = 0
    /\ proof = [e \in Enclaves |-> NoProof]
    /\ calls = 0 /\ callers = {} /\ nonces = 0

-----------------------------------------------------------------------------
(* Keys and counter.                                                       *)

\* addProof makes an enclave and calls it.
Call(e) ==
    /\ At(e, "idle")
    /\ calls < MaxCalls
    /\ calls' = calls + 1
    /\ callers' = callers \cup {e}
    /\ Goto(e, "session")
    /\ UNCHANGED <<file, counters, keysTxt, publicKey, made, proof, nonces>>

\* The session opens once the service is not busy.
OpenSession(e) ==
    /\ At(e, "session")
    /\ Goto(e, "load")
    /\ UNCHANGED <<file, counters, keysTxt, publicKey, made, proof, calls, callers, nonces>>

\* A service of the platform or an ocall reports an error, which ends the call.
Fail(e) ==
    /\ call[e].pc \in {"session", "create", "keys", "append", "increment", "open", "draw",
                      "start", "sleep", "read"}
    /\ call' = [call EXCEPT ![e] = Idle]
    /\ UNCHANGED <<file, counters, keysTxt, publicKey, made, proof, calls, callers, nonces>>

\* loadData: no file, or one that is empty, makes new keys.
LoadData(e) ==
    /\ At(e, "load")
    /\ call' = [call EXCEPT ![e] =
           IF file.is # "sealed" THEN [@ EXCEPT !.pc = "create"]
           ELSE [@ EXCEPT !.pc = "increment", !.mc = file.mc, !.key = file.key]]
    /\ UNCHANGED <<file, counters, keysTxt, publicKey, made, proof, calls, callers, nonces>>

CreateCounter(e) ==
    /\ At(e, "create")
    /\ counters' = Append(counters, 0)
    /\ call' = [call EXCEPT ![e].pc = "keys", ![e].mc = Len(counters) + 1]
    /\ UNCHANGED <<file, keysTxt, publicKey, made, proof, calls, callers, nonces>>

\* createKeys, and fopen of ocall_save_public_key, which empties publicKey.txt.
CreateKeys(e) ==
    /\ At(e, "keys")
    /\ made' = made + 1
    /\ publicKey' = NoKey
    /\ call' = [call EXCEPT ![e].pc = "publish", ![e].key = made + 1]
    /\ UNCHANGED <<file, counters, keysTxt, proof, calls, callers, nonces>>

\* Mutant of PublishKey: only the first key is ever written.
PublishKeyOnce(e) ==
    /\ At(e, "publish")
    /\ publicKey' = IF made = 1 THEN call[e].key ELSE publicKey
    /\ Goto(e, "append")
    /\ UNCHANGED <<file, counters, keysTxt, made, proof, calls, callers, nonces>>

\* fclose has written the key to publicKey.txt.
PublishKey(e) ==
    /\ At(e, "publish")
    /\ publicKey' = call[e].key
    /\ Goto(e, "append")
    /\ UNCHANGED <<file, counters, keysTxt, made, proof, calls, callers, nonces>>

\* Mutant of AppendKey: what ocall_save_public_key returns is not looked at.
AppendKeyUnchecked(e) ==
    /\ At(e, "append")
    /\ keysTxt' \in {keysTxt, keysTxt \cup {call[e].key}}
    /\ Goto(e, "increment")
    /\ UNCHANGED <<file, counters, publicKey, made, proof, calls, callers, nonces>>

\* keys.txt is opened, if it can be, and gets the key as well.
AppendKey(e) ==
    /\ At(e, "append")
    /\ keysTxt' = keysTxt \cup {call[e].key}
    /\ Goto(e, "increment")
    /\ UNCHANGED <<file, counters, publicKey, made, proof, calls, callers, nonces>>

Increment(e) ==
    /\ At(e, "increment")
    /\ \E mc \in {call[e].mc} :
        /\ counters' = [counters EXCEPT ![mc] = @ + 1]
        /\ call' = [call EXCEPT ![e].pc = "open", ![e].old = counters[mc] + 1,
                                ![e].ticket = mc, ![e].rivals = {}]
    /\ UNCHANGED <<file, keysTxt, publicKey, made, proof, calls, callers, nonces>>

\* saveData: fopen empties the file ...
OpenFile(e) ==
    /\ At(e, "open")
    /\ file' = EmptyFile
    /\ Goto(e, "write")
    /\ UNCHANGED <<counters, keysTxt, publicKey, made, proof, calls, callers, nonces>>

\* ... and fclose writes it.
WriteFile(e) ==
    /\ At(e, "write")
    /\ file' = [mc |-> call[e].mc, key |-> call[e].key, is |-> "sealed"]
    /\ Goto(e, "draw")
    /\ UNCHANGED <<counters, keysTxt, publicKey, made, proof, calls, callers, nonces>>

-----------------------------------------------------------------------------
(* The wait.                                                               *)

\* getLuckyNumber.
Draw(e) ==
    /\ At(e, "draw")
    /\ \E n \in Lucks :
        call' = [call EXCEPT ![e].pc = "start", ![e].luck = n, ![e].since = 0]
    /\ UNCHANGED <<file, counters, keysTxt, publicKey, made, proof, calls, callers, nonces>>

\* Mutant of StartWait: the nonce is not read again.
StartWaitOldNonce(e) ==
    /\ At(e, "start")
    /\ call' = [call EXCEPT ![e].pc = "sleep", ![e].slept = 0]
    /\ UNCHANGED <<file, counters, keysTxt, publicKey, made, proof, calls, callers, nonces>>

\* wait begins: the time and the nonce are read.
StartWait(e) ==
    /\ At(e, "start")
    /\ call' = [call EXCEPT ![e].pc = "sleep", ![e].slept = 0, ![e].changed = FALSE]
    /\ UNCHANGED <<file, counters, keysTxt, publicKey, made, proof, calls, callers, nonces>>

\* Mutant of CheckTime: times of two sources are compared.
CheckTimeAnyNonce(e) ==
    /\ At(e, "sleep")
    /\ call[e].changed \/ call[e].slept >= WaitingPeriod(call[e].luck)
    /\ Goto(e, "reload")
    /\ UNCHANGED <<file, counters, keysTxt, publicKey, made, proof, calls, callers, nonces>>

\* ocall_sleep has returned, perhaps early, and the time is read: the wait is
\* over, or goes on (no step), or begins again.
CheckTime(e) ==
    /\ At(e, "sleep")
    /\ \/ call[e].changed /\ Goto(e, "start")
       \/ /\ ~ call[e].changed
          /\ call[e].slept >= WaitingPeriod(call[e].luck)
          /\ Goto(e, "reload")
    /\ UNCHANGED <<file, counters, keysTxt, publicKey, made, proof, calls, callers, nonces>>

-----------------------------------------------------------------------------
(* The proof.                                                              *)

\* loadData again: the file may have changed; when it is empty the call fails.
Reload(e) ==
    /\ At(e, "reload")
    /\ call' = [call EXCEPT ![e] =
           IF file.is # "sealed" THEN Idle
           ELSE [@ EXCEPT !.pc = "read", !.mc = file.mc, !.key = file.key]]
    /\ UNCHANGED <<file, counters, keysTxt, publicKey, made, proof, calls, callers, nonces>>

\* A proof, and how it came about.
ProofOf(e) ==
    [key |-> call[e].key, luck |-> call[e].luck, since |-> call[e].since,
     own |-> call[e].mc = call[e].ticket, rivals |-> call[e].rivals]

\* e is done; the others that have a ticket note its proof.
Deliver(e) ==
    /\ proof' = [proof EXCEPT ![e] = ProofOf(e)]
    /\ call' = [f \in Enclaves |->
           IF f = e THEN Idle
           ELSE IF call[f].ticket = 0 THEN call[f]
           ELSE [call[f] EXCEPT !.rivals =
                    @ \cup {[key |-> call[e].key, ticket |-> call[e].ticket,
                             own |-> call[e].mc = call[e].ticket]}]]

\* Mutant of ReadCounter: the counter is read and not compared.
ReadCounterOnly(e) ==
    /\ At(e, "read")
    /\ Deliver(e)
    /\ UNCHANGED <<file, counters, keysTxt, publicKey, made, calls, callers, nonces>>

\* The counter must be what it was after the increment; then header and lucky
\* number are signed.
ReadCounter(e) ==
    /\ At(e, "read")
    /\ IF counters[call[e].mc] = call[e].old THEN Deliver(e)
       ELSE call' = [call EXCEPT ![e] = Idle] /\ UNCHANGED proof
    /\ UNCHANGED <<file, counters, keysTxt, publicKey, made, calls, callers, nonces>>

-----------------------------------------------------------------------------
(* The environment.                                                        *)

\* The process dies; its files stay as they are.
Crash(e) ==
    /\ ~ At(e, "idle")
    /\ call' = [call EXCEPT ![e] = Idle]
    /\ UNCHANGED <<file, counters, keysTxt, publicKey, made, proof, calls, callers, nonces>>

\* A second passes for everybody.  More than MaxWait need not be counted.
Later(n) == IF n < MaxWait THEN n + 1 ELSE n
Tick ==
    /\ call' = [e \in Enclaves |->
           IF call[e].pc \in {"start", "sleep", "reload", "read"}
           THEN [call[e] EXCEPT !.since = Later(@),
                    !.slept = IF call[e].pc = "sleep" THEN Later(@) ELSE @]
           ELSE call[e]]
    /\ UNCHANGED <<file, counters, keysTxt, publicKey, made, proof, calls, callers, nonces>>

\* The source of the trusted time changes.
NewNonce ==
    /\ nonces < MaxNonces
    /\ nonces' = nonces + 1
    /\ call' = [e \in Enclaves |->
           IF At(e, "sleep") THEN [call[e] EXCEPT !.changed = TRUE] ELSE call[e]]
    /\ UNCHANGED <<file, counters, keysTxt, publicKey, made, proof, calls, callers>>

Step(e) ==
    \/ OpenSession(e) \/ LoadData(e)
    \/ CreateCounter(e) \/ CreateKeys(e) \/ PublishKey(e) \/ AppendKey(e)
    \/ Increment(e) \/ OpenFile(e) \/ WriteFile(e)
    \/ Draw(e) \/ StartWait(e) \/ CheckTime(e)
    \/ Reload(e) \/ ReadCounter(e)

Next ==
    \/ \E e \in Enclaves : Call(e) \/ Step(e) \/ Fail(e) \/ Crash(e)
    \/ Tick \/ NewNonce

\* A call keeps running and time passes; nobody has to call, fail, die or
\* change the time source.
Fairness == (\A e \in Enclaves : WF_vars(Step(e))) /\ WF_vars(Tick)

Spec == Init /\ [][Next]_vars
FairSpec == Spec /\ Fairness
=============================================================================
