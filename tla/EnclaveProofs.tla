---------------------------- MODULE EnclaveProofs ----------------------------
(***************************************************************************)
(* Proofs about the proof of luck, for any number of processes, calls and  *)
(* lucky numbers, and for any waiting time.                                *)
(***************************************************************************)
EXTENDS EnclaveProperties, FiniteSetTheorems, TLAPS

\* Where a call has a counter, a key, a ticket and a lucky number.
Drawn      == {"start", "sleep", "reload", "read"}
HasTicket  == Drawn \cup {"open", "write", "draw"}
KeyAdded   == HasTicket \cup {"increment"}
HasKey     == KeyAdded \cup {"publish", "append"}
HasCounter == HasKey \cup {"keys"}

\* What a call holds, by where it is.
CallsOK ==
    \A e \in Enclaves :
        /\ call[e].pc \in HasCounter => call[e].mc # 0
        /\ call[e].pc \in HasKey <=> call[e].key # NoKey
        /\ call[e].pc \in KeyAdded => call[e].key \in keysTxt
        /\ call[e].pc \in HasTicket => call[e].ticket # 0
        /\ call[e].pc \in Drawn => call[e].luck \in Lucks

TypeInv == TypeOK /\ CallsOK

\* A call that sleeps, and whose time source is the one it began with, has
\* slept no longer than its number is old; past the wait, the number is as
\* old as it has to be.
WaitOK ==
    \A e \in Enclaves :
        /\ call[e].pc = "sleep" => call[e].slept <= call[e].since
        /\ call[e].pc \in {"reload", "read"} =>
            call[e].since >= WaitingPeriod(call[e].luck)

WaitInv == TypeInv /\ WaitOK /\ WaitedForLuck

\* Counter m is seen with key k: in a call, in the file, or in the proof of a
\* rival that read its own counter.
Pair(m, k) ==
    \/ \E e \in Enclaves : call[e].mc = m /\ call[e].key = k
    \/ file.mc = m /\ file.key = k
    \/ \E e \in Enclaves : \E r \in call[e].rivals : r.own /\ r.ticket = m /\ r.key = k

\* A key belongs to one counter.
KeyOfCounter ==
    \A m, n \in 0 .. Len(counters), k \in 1 .. made : Pair(m, k) /\ Pair(n, k) => m = n

\* Two tickets of one counter show different values, and none that the
\* counter has not reached.
TicketsDiffer ==
    \A e \in Enclaves : call[e].ticket # 0 =>
        /\ call[e].old <= counters[call[e].ticket]
        /\ \A f \in Enclaves \ {e} :
            call[f].ticket = call[e].ticket => call[f].old # call[e].old

\* When another got its proof from the counter of e's ticket, the counter has
\* passed that ticket.
TicketIsSpent ==
    \A e \in Enclaves : \A r \in call[e].rivals :
        r.own /\ r.ticket = call[e].ticket => counters[call[e].ticket] > call[e].old

TicketInv == TypeInv /\ KeyOfCounter /\ TicketsDiffer /\ TicketIsSpent /\ OneProofPerCounter

\* One process: only it is in a call, it makes keys only for a file without
\* any, and until it has saved them they are the ones it has published.
OneCaller ==
    /\ IsFiniteSet(callers)
    /\ \A e \in Enclaves : call[e].pc # "idle" => e \in callers
    /\ Cardinality(callers) <= 1 =>
        /\ file.is = "sealed" => file.key = publicKey
        /\ \A e \in Enclaves :
            /\ call[e].pc \in {"create", "keys", "publish", "append"} => file.is # "sealed"
            /\ call[e].pc \in {"append", "increment", "open", "write"} => call[e].key = publicKey

CallerInv == TypeInv /\ OneCaller

-----------------------------------------------------------------------------
(* Types.                                                                  *)

LEMMA InitType == Init => TypeInv
<1> SUFFICES ASSUME Init PROVE TypeInv
    OBVIOUS
<1> USE EnclaveAssumption DEF Init, Idle, NoFile, NoKey, NoProof
<1>1. call \in [Enclaves -> CallType]
    BY DEF CallType, Places
<1>2. TypeOK
    BY <1>1 DEF TypeOK
<1>3. CallsOK
    BY DEF CallsOK, HasCounter, HasKey, KeyAdded, HasTicket, Drawn
<1>4. QED
    BY <1>2, <1>3 DEF TypeInv

\* The fields of a call.
LEMMA CallFields ==
    ASSUME TypeInv, NEW e \in Enclaves
    PROVE  /\ call[e] \in CallType
           /\ call[e].mc \in 0 .. Len(counters) /\ call[e].ticket \in 0 .. Len(counters)
           /\ call[e].key \in 0 .. made
           /\ call[e].old \in Nat
           /\ call[e].slept \in 0 .. MaxWait /\ call[e].since \in 0 .. MaxWait
           /\ call[e].rivals \subseteq Rivals
           /\ call[e].pc \in HasCounter => call[e].mc \in 1 .. Len(counters)
           /\ call[e].pc \in HasKey => call[e].key # NoKey
           /\ call[e].pc \in KeyAdded => call[e].key \in keysTxt
           /\ call[e].pc \in HasTicket => call[e].ticket \in 1 .. Len(counters)
           /\ call[e].pc \in Drawn => call[e].luck \in Lucks
<1>1. call[e] \in CallType
    BY DEF TypeInv, TypeOK
<1>2. QED
    BY <1>1 DEF TypeInv, CallsOK, CallType, NoKey

\* The counters only grow: CreateCounter adds one, Increment raises one.
LEMMA CountersGrow ==
    ASSUME TypeInv, [Next]_vars
    PROVE  /\ counters' \in Seq(Nat) /\ Len(counters') >= Len(counters)
           /\ \A m \in 1 .. Len(counters) : counters'[m] >= counters[m]
<1>1. counters \in Seq(Nat)
    BY DEF TypeInv, TypeOK
<1>2. ASSUME NEW e \in Enclaves, Increment(e)
      PROVE  \E m \in 1 .. Len(counters) : counters' = [counters EXCEPT ![m] = counters[m] + 1]
    <2>1. call[e].mc \in 1 .. Len(counters)
        BY <1>2, CallFields DEF Increment, At, HasCounter, HasKey, KeyAdded
    <2>2. counters' = [counters EXCEPT ![call[e].mc] = counters[call[e].mc] + 1]
        BY <1>2 DEF Increment
    <2>3. QED
        BY <2>1, <2>2
<1>3. \/ counters' = counters
      \/ counters' = Append(counters, 0)
      \/ \E m \in 1 .. Len(counters) : counters' = [counters EXCEPT ![m] = counters[m] + 1]
    BY <1>2, ZenonT(60) DEF Next, Tick, NewNonce, vars, Call, Step, Fail, Crash, OpenSession, LoadData,
                CreateCounter, CreateKeys,
                PublishKey, AppendKey, OpenFile, WriteFile, Draw, StartWait, CheckTime,
                Reload, ReadCounter
<1>4. CASE counters' = Append(counters, 0)
    BY <1>1, <1>4
<1>5. CASE \E m \in 1 .. Len(counters) : counters' = [counters EXCEPT ![m] = counters[m] + 1]
    <2>1. PICK m \in 1 .. Len(counters) : counters' = [counters EXCEPT ![m] = counters[m] + 1]
        BY <1>5
    <2>2. counters[m] + 1 \in Nat
        BY <1>1
    <2>3. counters' \in Seq(Nat) /\ Len(counters') = Len(counters)
        BY <1>1, <2>1, <2>2
    <2>4. QED
        BY <1>1, <2>1, <2>3
<1>6. QED
    BY <1>1, <1>3, <1>4, <1>5

\* Keys are made, published, and added to keys.txt; none is taken out of it.
LEMMA KeysGrow ==
    ASSUME TypeInv, [Next]_vars
    PROVE  /\ made' \in Nat /\ made' >= made
           /\ keysTxt' \subseteq 1 .. made' /\ publicKey' \in 0 .. made'
           /\ keysTxt \subseteq keysTxt'
<1>1. made \in Nat /\ keysTxt \subseteq 1 .. made /\ publicKey \in 0 .. made
    BY DEF TypeInv, TypeOK
<1>2. ASSUME NEW e \in Enclaves, CreateKeys(e)
      PROVE  made' = made + 1 /\ keysTxt' = keysTxt /\ publicKey' = 0
    BY <1>2 DEF CreateKeys, NoKey
<1>3. ASSUME NEW e \in Enclaves, PublishKey(e) \/ AppendKey(e)
      PROVE  /\ made' = made /\ call[e].key \in 1 .. made
             /\ publicKey' \in {publicKey, call[e].key}
             /\ keysTxt' \in {keysTxt, keysTxt \cup {call[e].key}}
    <2>1. call[e].key \in 0 .. made /\ call[e].key # NoKey
        BY <1>3, CallFields DEF PublishKey, AppendKey, At, HasKey
    <2>2. QED
        BY <1>1, <1>3, <2>1 DEF PublishKey, AppendKey, NoKey
<1>4. \/ \E e \in Enclaves : CreateKeys(e) \/ PublishKey(e) \/ AppendKey(e)
      \/ UNCHANGED <<made, keysTxt, publicKey>>
    BY ZenonT(60) DEF Next, Tick, NewNonce, vars, Call, Step, Fail, Crash, OpenSession, LoadData,
           CreateCounter, Increment, OpenFile, WriteFile, Draw, StartWait,
           CheckTime, Reload, ReadCounter
<1>5. CASE \E e \in Enclaves : CreateKeys(e)
    <2>1. made' = made + 1 /\ keysTxt' = keysTxt /\ publicKey' = 0
        BY <1>2, <1>5
    <2>2. QED
        BY <1>1, <2>1
<1>6. CASE \E e \in Enclaves : PublishKey(e) \/ AppendKey(e)
    <2>1. PICK e \in Enclaves : PublishKey(e) \/ AppendKey(e)
        BY <1>6
    <2>2. PICK k \in 1 .. made : /\ made' = made /\ publicKey' \in {publicKey, k}
                                  /\ keysTxt' \in {keysTxt, keysTxt \cup {k}}
        BY <1>3, <2>1
    <2>3. QED
        BY <1>1, <2>2
<1>7. CASE UNCHANGED <<made, keysTxt, publicKey>>
    BY <1>1, <1>7
<1>8. QED
    BY <1>4, <1>5, <1>6, <1>7

\* What has a type still has it when keys and counters have grown.
LEMMA TypesGrow ==
    ASSUME keysTxt \subseteq keysTxt', Len(counters) \in Nat, Len(counters') \in Nat,
           Len(counters') >= Len(counters), made \in Nat, made' \in Nat, made' >= made
    PROVE  CallType \subseteq CallType' /\ ProofType \subseteq ProofType' /\ Rivals \subseteq Rivals'
<1>1. Rivals \subseteq Rivals'
    BY DEF Rivals
<1>2. QED
    BY <1>1 DEF CallType, ProofType

-----------------------------------------------------------------------------

\* The steps of a call's own process, and what each makes of the call.
LEMMA StepType ==
    ASSUME TypeInv, [Next]_vars, NEW e \in Enclaves, Call(e) \/ Step(e) \/ Fail(e) \/ Crash(e)
    PROVE  call' \in [Enclaves -> CallType'] /\ CallsOK'
<1> USE DEF HasCounter, HasKey, KeyAdded, HasTicket, Drawn
<1>1. call \in [Enclaves -> CallType]
    BY DEF TypeInv, TypeOK
<1>0. /\ Len(counters) \in Nat /\ Len(counters') \in Nat
      /\ 0 .. Len(counters) \subseteq 0 .. Len(counters')
      /\ 1 .. Len(counters) \subseteq 1 .. Len(counters')
      /\ 0 \in 0 .. MaxWait
    BY CountersGrow, EnclaveAssumption DEF TypeInv, TypeOK
<1>2. CallType \subseteq CallType' /\ Rivals \subseteq Rivals' /\ keysTxt \subseteq keysTxt'
    BY CountersGrow, KeysGrow, TypesGrow, SMTT(60) DEF TypeInv, TypeOK
<1>3. ASSUME NEW c \in CallType', call' = [call EXCEPT ![e] = c],
             c.pc \in HasCounter => c.mc # 0,
             c.pc \in HasKey <=> c.key # NoKey,
             c.pc \in KeyAdded => c.key \in keysTxt',
             c.pc \in HasTicket => c.ticket # 0,
             c.pc \in Drawn => c.luck \in Lucks
      PROVE  call' \in [Enclaves -> CallType'] /\ CallsOK'
    BY <1>1, <1>2, <1>3 DEF TypeInv, CallsOK
<1>4. Idle \in CallType'
    BY EnclaveAssumption, CountersGrow, KeysGrow DEF Idle, CallType, NoKey, Places
<1>5. CASE call' = [call EXCEPT ![e] = Idle]
    BY <1>3, <1>4, <1>5 DEF Idle, NoKey
<1>6. call[e] \in CallType' /\ call[e].pc \in Places
    BY <1>1, <1>2 DEF CallType
<1>7. ASSUME NEW p \in Places, call' = [call EXCEPT ![e] = [call[e] EXCEPT !.pc = p]],
             p \in HasCounter => call[e].pc \in HasCounter,
             p \in HasKey <=> call[e].pc \in HasKey,
             p \in KeyAdded => call[e].pc \in KeyAdded \/ call[e].key \in keysTxt',
             p \in HasTicket => call[e].pc \in HasTicket,
             p \in Drawn => call[e].pc \in Drawn
      PROVE  call' \in [Enclaves -> CallType'] /\ CallsOK'
    <2>1. [call[e] EXCEPT !.pc = p] \in CallType'
        BY <1>6 DEF CallType
    <2>2. call[e] \in CallType
        BY <1>1
    <2>3. p \in KeyAdded => call[e].key \in keysTxt'
        BY <1>2, <1>7 DEF TypeInv, CallsOK
    <2> DEFINE c == [call[e] EXCEPT !.pc = p]
    <2>4. /\ c.pc = p /\ c.mc = call[e].mc /\ c.key = call[e].key
          /\ c.ticket = call[e].ticket /\ c.luck = call[e].luck
        BY <2>2 DEF CallType
    <2> HIDE DEF c
    <2>5. /\ p \in HasCounter => c.mc # 0
          /\ p \in HasKey <=> c.key # NoKey
          /\ p \in HasTicket => c.ticket # 0
          /\ p \in Drawn => c.luck \in Lucks
        BY <1>7, <2>4 DEF TypeInv, CallsOK
    <2>6. QED
        BY <1>3, <1>7, <2>1, <2>3, <2>4, <2>5 DEF c
<1>8. CASE \/ Call(e) \/ OpenSession(e) \/ OpenFile(e) \/ WriteFile(e) \/ CheckTime(e)
           \/ PublishKey(e)
    <2>1. \E p \in Places :
            /\ call' = [call EXCEPT ![e] = [call[e] EXCEPT !.pc = p]]
            /\ <<call[e].pc, p>> \in
                  {<<"idle", "session">>, <<"session", "load">>, <<"open", "write">>,
                   <<"write", "draw">>, <<"sleep", "start">>, <<"sleep", "reload">>,
                   <<"publish", "append">>}
        BY <1>8 DEF Call, OpenSession, OpenFile, WriteFile, CheckTime, PublishKey, At, Goto,
                    Places
    <2>2. QED
        BY <1>7, <2>1
<1>9. CASE LoadData(e)
    <2>1. CASE file.is # "sealed"
        BY <1>7, <1>9, <2>1 DEF LoadData, At, Places
    <2>2. CASE file.is = "sealed"
        <3>1. file.mc \in 1 .. Len(counters) /\ file.key \in keysTxt
            BY <2>2 DEF TypeInv, TypeOK, NoFile, EmptyFile
        <3>2. file.mc \in 0 .. Len(counters') /\ file.key \in keysTxt'
              /\ file.key \in 0 .. made'
            BY <1>0, <1>2, <3>1, KeysGrow
        <3>3. [call[e] EXCEPT !.pc = "increment", !.mc = file.mc, !.key = file.key] \in CallType'
            BY <1>6, <3>2 DEF CallType, Places
        <3>4. file.mc # 0 /\ file.key # NoKey
            BY <3>1 DEF TypeInv, TypeOK, NoKey
        <3>5. call' = [call EXCEPT ![e] =
                          [call[e] EXCEPT !.pc = "increment", !.mc = file.mc, !.key = file.key]]
            BY <1>9, <2>2 DEF LoadData
        <3>6. QED
            BY <1>3, <1>6, <3>2, <3>3, <3>4, <3>5 DEF CallType
    <2>3. QED
        BY <2>1, <2>2
<1>10. CASE CreateCounter(e)
    <2>1. Len(counters) + 1 \in 0 .. Len(counters') /\ Len(counters) + 1 # 0
        <3>1. counters' = Append(counters, 0) /\ counters \in Seq(Nat)
            BY <1>10 DEF CreateCounter, TypeInv, TypeOK
        <3>2. QED
            BY <1>0, <3>1
    <2>2. [call[e] EXCEPT !.pc = "keys", !.mc = Len(counters) + 1] \in CallType'
        BY <1>6, <2>1 DEF CallType, Places
    <2>3. call[e].key = NoKey
        BY <1>10 DEF CreateCounter, At, TypeInv, CallsOK
    <2>4. call' = [call EXCEPT ![e] = [call[e] EXCEPT !.pc = "keys", !.mc = Len(counters) + 1]]
        BY <1>10 DEF CreateCounter
    <2>5. QED
        BY <1>3, <1>6, <2>1, <2>2, <2>3, <2>4 DEF CallType
<1>11. CASE CreateKeys(e)
    <2>1. call' = [call EXCEPT ![e] = [call[e] EXCEPT !.pc = "publish", !.key = made + 1]]
          /\ made' = made + 1
        BY <1>11 DEF CreateKeys
    <2>2. made + 1 \in 0 .. made' /\ made + 1 # NoKey
        BY <2>1 DEF TypeInv, TypeOK, NoKey
    <2>3. [call[e] EXCEPT !.pc = "publish", !.key = made + 1] \in CallType'
        BY <1>6, <2>2 DEF CallType, Places
    <2>4. call[e].mc # 0
        BY <1>11 DEF CreateKeys, At, TypeInv, CallsOK
    <2>5. QED
        BY <1>3, <1>6, <2>1, <2>2, <2>3, <2>4 DEF CallType
<1>19. CASE AppendKey(e)
    <2>1. /\ call' = [call EXCEPT ![e] = [call[e] EXCEPT !.pc = "increment"]]
          /\ call[e].key \in keysTxt' /\ call[e].pc = "append"
        BY <1>19 DEF AppendKey, Goto, At
    <2>2. QED
        BY <1>7, <2>1 DEF Places
<1>12. CASE Increment(e)
    <2>1. /\ call[e].pc = "increment" /\ call[e].mc \in 1 .. Len(counters) /\ call[e].key # NoKey
          /\ call[e].key \in keysTxt'
        BY <1>2, <1>12, CallFields DEF Increment, At, TypeInv, CallsOK
    <2>2. counters[call[e].mc] + 1 \in Nat /\ call[e].mc \in 0 .. Len(counters')
        BY <1>0, <2>1 DEF TypeInv, TypeOK
    <2> DEFINE c == [call[e] EXCEPT !.pc = "open", !.old = counters[call[e].mc] + 1,
                                    !.ticket = call[e].mc, !.rivals = {}]
    <2>3. call' = [call EXCEPT ![e] = c]
        BY <1>12 DEF Increment
    <2>4. c \in CallType'
        BY <1>6, <2>2 DEF CallType, Places
    <2>5. c.mc # 0 /\ c.key # NoKey /\ c.ticket # 0 /\ c.pc = "open" /\ c.key \in keysTxt'
        BY <1>6, <2>1 DEF CallType
    <2> HIDE DEF c
    <2>6. QED
        BY <1>3, <2>3, <2>4, <2>5
<1>13. CASE Draw(e)
    <2>1. PICK n \in Lucks :
            call' = [call EXCEPT ![e] = [call[e] EXCEPT !.pc = "start", !.luck = n, !.since = 0]]
        BY <1>13 DEF Draw
    <2>2. [call[e] EXCEPT !.pc = "start", !.luck = n, !.since = 0] \in CallType'
        BY <1>0, <1>6 DEF CallType, Places
    <2>3. /\ call[e].mc # 0 /\ call[e].key # NoKey /\ call[e].ticket # 0
          /\ call[e].key \in keysTxt'
        BY <1>2, <1>13 DEF Draw, At, TypeInv, CallsOK
    <2>4. QED
        BY <1>3, <1>6, <2>1, <2>2, <2>3 DEF CallType
<1>14. CASE StartWait(e)
    <2>1. call' = [call EXCEPT ![e] = [call[e] EXCEPT !.pc = "sleep", !.slept = 0,
                                                      !.changed = FALSE]]
        BY <1>14 DEF StartWait
    <2>2. [call[e] EXCEPT !.pc = "sleep", !.slept = 0, !.changed = FALSE] \in CallType'
        BY <1>0, <1>6 DEF CallType, Places
    <2>3. /\ call[e].mc # 0 /\ call[e].key # NoKey /\ call[e].ticket # 0
          /\ call[e].luck \in Lucks /\ call[e].key \in keysTxt'
        BY <1>2, <1>14 DEF StartWait, At, TypeInv, CallsOK
    <2>4. QED
        BY <1>3, <1>6, <2>1, <2>2, <2>3 DEF CallType
<1>15. CASE Reload(e)
    <2>1. CASE file.is # "sealed"
        BY <1>5, <1>15, <2>1 DEF Reload
    <2>2. CASE file.is = "sealed"
        <3>1. file.mc \in 1 .. Len(counters) /\ file.key \in keysTxt
            BY <2>2 DEF TypeInv, TypeOK, NoFile, EmptyFile
        <3>2. file.mc \in 0 .. Len(counters') /\ file.key \in keysTxt'
              /\ file.key \in 0 .. made'
            BY <1>0, <1>2, <3>1, KeysGrow
        <3>3. [call[e] EXCEPT !.pc = "read", !.mc = file.mc, !.key = file.key] \in CallType'
            BY <1>6, <3>2 DEF CallType, Places
        <3>4. file.mc # 0 /\ file.key # NoKey
            BY <3>1 DEF TypeInv, TypeOK, NoKey
        <3>5. call[e].ticket # 0 /\ call[e].luck \in Lucks
            BY <1>15 DEF Reload, At, TypeInv, CallsOK
        <3>6. call' = [call EXCEPT ![e] =
                          [call[e] EXCEPT !.pc = "read", !.mc = file.mc, !.key = file.key]]
            BY <1>15, <2>2 DEF Reload
        <3>7. QED
            BY <1>3, <1>6, <3>2, <3>3, <3>4, <3>5, <3>6 DEF CallType
    <2>3. QED
        BY <2>1, <2>2
<1>16. CASE At(e, "read") /\ Deliver(e)
    <2> DEFINE r == [key |-> call[e].key, ticket |-> call[e].ticket,
                     own |-> call[e].mc = call[e].ticket]
    <2>0. r \in Rivals
        BY <1>16, CallFields DEF At, Rivals
    <2>1. call' = [f \in Enclaves |->
                      IF f = e THEN Idle
                      ELSE IF call[f].ticket = 0 THEN call[f]
                      ELSE [call[f] EXCEPT !.rivals = call[f].rivals \cup {r}]]
        BY <1>16 DEF Deliver
    <2> HIDE DEF r
    <2>2. ASSUME NEW c \in CallType' PROVE [c EXCEPT !.rivals = c.rivals \cup {r}] \in CallType'
        BY <1>2, <2>0 DEF CallType
    <2>3. ASSUME NEW f \in Enclaves PROVE call[f] \in CallType'
        BY <1>1, <1>2
    <2>4. call' \in [Enclaves -> CallType']
        BY <1>4, <2>1, <2>2, <2>3
    <2>5. ASSUME NEW f \in Enclaves, f # e
          PROVE  /\ call'[f].pc = call[f].pc /\ call'[f].mc = call[f].mc
                 /\ call'[f].key = call[f].key /\ call'[f].ticket = call[f].ticket
                 /\ call'[f].luck = call[f].luck
        BY <1>1, <2>1, <2>5 DEF CallType
    <2>6. CallsOK'
        BY <1>2, <2>1, <2>5 DEF TypeInv, CallsOK, Idle, NoKey
    <2>7. QED
        BY <2>4, <2>6
<1>17. CASE ReadCounter(e)
    BY <1>5, <1>16, <1>17 DEF ReadCounter
<1>18. QED
    BY <1>5, <1>8, <1>9, <1>10, <1>11, <1>12, <1>13, <1>14, <1>15, <1>17, <1>19
       DEF Step, Fail, Crash

\* The environment: time passes for every call, and the source of it changes.
LEMMA TimeType ==
    ASSUME TypeInv, Tick \/ NewNonce
    PROVE  call' \in [Enclaves -> CallType'] /\ CallsOK'
<1>1. call \in [Enclaves -> CallType] /\ CallType' = CallType
    BY DEF TypeInv, TypeOK, Tick, NewNonce, CallType, Rivals
<1>2. ASSUME NEW n \in 0 .. MaxWait PROVE Later(n) \in 0 .. MaxWait
    BY EnclaveAssumption DEF Later
<1>3. ASSUME NEW c \in CallType
      PROVE  /\ [c EXCEPT !.since = Later(c.since),
                           !.slept = IF c.pc = "sleep" THEN Later(c.slept) ELSE c.slept]
                    \in CallType
             /\ [c EXCEPT !.changed = TRUE] \in CallType
    <2>1. Later(c.since) \in 0 .. MaxWait /\ Later(c.slept) \in 0 .. MaxWait
        BY <1>2 DEF CallType
    <2>2. QED
        BY <2>1 DEF CallType
<1>4. call' \in [Enclaves -> CallType]
    <2>1. CASE Tick
        BY <1>1, <1>3, <2>1 DEF Tick
    <2>2. CASE NewNonce
        BY <1>1, <1>3, <2>2 DEF NewNonce
    <2>3. QED
        BY <2>1, <2>2
<1>5. ASSUME NEW e \in Enclaves
      PROVE  /\ call'[e].pc = call[e].pc /\ call'[e].mc = call[e].mc
             /\ call'[e].key = call[e].key /\ call'[e].ticket = call[e].ticket
             /\ call'[e].luck = call[e].luck
    <2>1. call[e] \in CallType
        BY <1>1
    <2>2. CASE Tick
        BY <2>1, <2>2 DEF Tick, CallType
    <2>3. CASE NewNonce
        BY <2>1, <2>3 DEF NewNonce, CallType
    <2>4. QED
        BY <2>2, <2>3
<1>6. CallsOK'
    <2>1. keysTxt' = keysTxt
        BY DEF Tick, NewNonce
    <2>2. QED
        BY <1>5, <2>1, SMTT(60) DEF TypeInv, CallsOK
<1>7. QED
    BY <1>1, <1>4, <1>6

\* The file holds what a call has written into it.
LEMMA FileType ==
    ASSUME TypeInv, [Next]_vars
    PROVE  file' \in {NoFile, EmptyFile}
                   \cup [mc : 1 .. Len(counters'), key : keysTxt', is : {"sealed"}]
<1>1. /\ 1 .. Len(counters) \subseteq 1 .. Len(counters')
      /\ keysTxt \subseteq keysTxt'
    BY CountersGrow, KeysGrow, SMTT(60) DEF TypeInv, TypeOK
<1>2. ASSUME NEW e \in Enclaves, WriteFile(e)
      PROVE  file' \in [mc : 1 .. Len(counters'), key : keysTxt', is : {"sealed"}]
    <2>1. call[e].mc \in 1 .. Len(counters) /\ call[e].key \in keysTxt
        BY <1>2, CallFields DEF WriteFile, At, HasCounter, HasKey, KeyAdded, HasTicket
    <2>2. QED
        BY <1>1, <1>2, <2>1 DEF WriteFile
<1>3. ASSUME NEW e \in Enclaves, OpenFile(e) PROVE file' = EmptyFile
    BY <1>3 DEF OpenFile
<1>4. CASE file' = file
    BY <1>1, <1>4 DEF TypeInv, TypeOK
<1>5. QED
    BY <1>2, <1>3, <1>4, ZenonT(60)
       DEF Next, Tick, NewNonce, vars, Call, Step, Fail, Crash, OpenSession, LoadData,
           CreateCounter, CreateKeys,
           PublishKey, AppendKey, Increment, Draw, StartWait, CheckTime, Reload, ReadCounter

\* A proof is what ReadCounter makes of its call.
LEMMA ProofWriters ==
    ASSUME [Next]_vars
    PROVE  \/ proof' = proof
           \/ \E e \in Enclaves :
                /\ At(e, "read") /\ counters[call[e].mc] = call[e].old
                /\ proof' = [proof EXCEPT ![e] = ProofOf(e)]
BY ZenonT(60) DEF Next, Tick, NewNonce, vars, Call, Step, Fail, Crash, OpenSession, LoadData,
       CreateCounter, CreateKeys, PublishKey,
       AppendKey, Increment, OpenFile, WriteFile, Draw, StartWait, CheckTime, Reload, ReadCounter, Deliver

LEMMA ProofTypeNext ==
    ASSUME TypeInv, [Next]_vars
    PROVE  proof' \in [Enclaves -> ProofType' \cup {NoProof}]
<1>1. ProofType \subseteq ProofType'
    BY CountersGrow, KeysGrow, TypesGrow DEF TypeInv, TypeOK
<1>2. ASSUME NEW e \in Enclaves, At(e, "read") PROVE ProofOf(e) \in ProofType
    BY <1>2, CallFields DEF At, ProofOf, ProofType, HasCounter, HasKey, KeyAdded, HasTicket, Drawn
<1>3. QED
    BY <1>1, <1>2, ProofWriters DEF TypeInv, TypeOK

\* TypeInv is inductive.
LEMMA TypeNext ==
    ASSUME TypeInv, [Next]_vars
    PROVE  TypeInv'
<1>1. call' \in [Enclaves -> CallType'] /\ CallsOK'
    <2>1. CASE UNCHANGED vars
        BY <2>1, SMTT(60) DEF vars, TypeInv, TypeOK, CallsOK, CallType, Rivals
    <2>2. QED
        BY <2>1, StepType, TimeType DEF Next
<1>3. calls' \in 0 .. MaxCalls /\ callers' \subseteq Enclaves /\ nonces' \in 0 .. MaxNonces
    <2>1. /\ calls' = calls \/ (calls < MaxCalls /\ calls' = calls + 1)
          /\ callers' = callers \/ \E e \in Enclaves : callers' = callers \cup {e}
          /\ nonces' = nonces \/ (nonces < MaxNonces /\ nonces' = nonces + 1)
        BY DEF Next, Tick, NewNonce, vars, Call, Step, Fail, Crash, OpenSession, LoadData,
               CreateCounter, CreateKeys,
               PublishKey, AppendKey, Increment, OpenFile, WriteFile, Draw, StartWait,
               CheckTime, Reload, ReadCounter
    <2>2. QED
        BY <2>1, EnclaveAssumption DEF TypeInv, TypeOK
<1>4. TypeOK'
    BY <1>1, <1>3, CountersGrow, KeysGrow, FileType, ProofTypeNext DEF TypeOK
<1>5. QED
    BY <1>1, <1>4 DEF TypeInv

\* Every variable keeps its type, whatever calls, crashes and processes come: a
\* counter in use exists, and a key that was sealed, or that has signed a proof,
\* is in keys.txt, though one that was only published need not be.
THEOREM TypeCorrect == Spec => []TypeOK
<1>1. TypeInv => TypeOK
    BY DEF TypeInv
<1>2. QED
    BY <1>1, InitType, TypeNext, PTL DEF Spec

-----------------------------------------------------------------------------
(* The wait.                                                               *)

\* How a call of e shows in the proofs of the others.
RivalOf(e) == [key |-> call[e].key, ticket |-> call[e].ticket,
               own |-> call[e].mc = call[e].ticket]

\* A process leaves the calls of the others alone, except that a proof of its
\* own becomes a rival of theirs.
LEMMA OthersKeep ==
    ASSUME TypeInv, NEW f \in Enclaves, Call(f) \/ Step(f) \/ Fail(f) \/ Crash(f),
           NEW e \in Enclaves, e # f
    PROVE  \/ call'[e] = call[e]
           \/ /\ At(f, "read") /\ counters[call[f].mc] = call[f].old
              /\ counters' = counters
              /\ call[e].ticket # 0
              /\ call'[e] = [call[e] EXCEPT !.rivals = call[e].rivals \cup {RivalOf(f)}]
<1>1. call \in [Enclaves -> CallType]
    BY DEF TypeInv, TypeOK
<1>2. CASE ReadCounter(f)
    BY <1>1, <1>2 DEF ReadCounter, Deliver, RivalOf
<1>3. QED
    BY <1>1, <1>2
       DEF Call, Step, Fail, Crash, OpenSession, LoadData, CreateCounter, CreateKeys,
           PublishKey, AppendKey, Increment,
           OpenFile, WriteFile, Draw, StartWait, CheckTime, Reload, Goto

\* A second makes no age smaller, and no sleep older than its number.
LEMMA LaterGrows ==
    ASSUME NEW m \in 0 .. MaxWait, NEW n \in 0 .. MaxWait, m <= n
    PROVE  Later(n) >= n /\ Later(m) <= Later(n)
BY EnclaveAssumption DEF Later

\* CheckTime lets a call go on only when it has slept long enough since the
\* nonce last changed; a call keeps its number until it is over.
LEMMA WaitOKNext ==
    ASSUME WaitInv, [Next]_vars
    PROVE  WaitOK'
<1> SUFFICES ASSUME NEW e \in Enclaves
             PROVE  /\ call'[e].pc = "sleep" => call'[e].slept <= call'[e].since
                    /\ call'[e].pc \in {"reload", "read"} =>
                            call'[e].since >= WaitingPeriod(call'[e].luck)
    BY DEF WaitOK
<1>1. /\ call \in [Enclaves -> CallType] /\ call[e] \in CallType
      /\ call[e].slept \in 0 .. MaxWait /\ call[e].since \in 0 .. MaxWait
      /\ call[e].luck \in Nat /\ Scale \in Nat \ {0} /\ MaxWait \in Nat
      /\ WaitingPeriod(call[e].luck) \in Int
    <2>1. call \in [Enclaves -> CallType] /\ call[e] \in CallType
        BY DEF WaitInv, TypeInv, TypeOK
    <2>2. /\ call[e].slept \in 0 .. MaxWait /\ call[e].since \in 0 .. MaxWait
          /\ call[e].luck \in Nat
        <3>1. Lucks \cup {0} \subseteq Nat
            BY EnclaveAssumption
        <3>2. QED
            BY <2>1, <3>1 DEF CallType
    <2>3. QED
        BY <2>1, <2>2, EnclaveAssumption DEF WaitingPeriod
<1>2. /\ call[e].pc = "sleep" => call[e].slept <= call[e].since
      /\ call[e].pc \in {"reload", "read"} => call[e].since >= WaitingPeriod(call[e].luck)
    BY DEF WaitInv, WaitOK
<1>3. CASE call'[e] = call[e] \/ call'[e].pc \notin {"sleep", "reload", "read"}
    BY <1>2, <1>3
<1>4. CASE StartWait(e)
    BY <1>1, <1>4 DEF StartWait, CallType
<1>5. CASE CheckTime(e)
    <2>1. CASE call[e].changed
        BY <1>1, <1>3, <1>5, <2>1 DEF CheckTime, Goto, CallType
    <2>2. CASE ~ call[e].changed
        BY <1>1, <1>2, <1>5, <2>2 DEF CheckTime, At, Goto, CallType
    <2>3. QED
        BY <2>1, <2>2
<1>6. CASE Reload(e)
    BY <1>1, <1>2, <1>6 DEF Reload, At, Idle, CallType
<1>7. CASE Tick
    <2>1. CASE call[e].pc = "sleep"
        BY <1>1, <1>2, <1>7, <2>1, LaterGrows DEF Tick, CallType
    <2>2. CASE call[e].pc \in {"reload", "read"}
        <3>1. /\ call'[e].pc = call[e].pc /\ call'[e].luck = call[e].luck
              /\ call'[e].since = Later(call[e].since)
            BY <1>1, <1>7, <2>2 DEF Tick, CallType
        <3>2. Later(call[e].since) >= call[e].since /\ Later(call[e].since) \in Int
            BY <1>1, LaterGrows DEF Later
        <3>3. call[e].since >= WaitingPeriod(call[e].luck)
            BY <1>2, <2>2
        <3>4. QED
            BY <1>1, <2>2, <3>1, <3>2, <3>3
    <2>3. CASE call[e].pc = "start"
        BY <1>1, <1>7, <2>3 DEF Tick, CallType
    <2>4. QED
        BY <1>1, <1>3, <1>7, <2>1, <2>2, <2>3 DEF Tick
<1>8. CASE NewNonce
    BY <1>1, <1>2, <1>8 DEF NewNonce, At, CallType
<1>9. ASSUME NEW f \in Enclaves, Call(f) \/ Step(f) \/ Fail(f) \/ Crash(f), f # e
      PROVE  /\ call'[e].pc = call[e].pc /\ call'[e].slept = call[e].slept
             /\ call'[e].since = call[e].since /\ call'[e].luck = call[e].luck
    <2>1. \/ call'[e] = call[e]
          \/ call'[e] = [call[e] EXCEPT !.rivals = call[e].rivals \cup {RivalOf(f)}]
        BY <1>9, OthersKeep DEF WaitInv
    <2>2. QED
        BY <1>1, <2>1 DEF CallType
<1>10. ASSUME Call(e) \/ Step(e) \/ Fail(e) \/ Crash(e),
              ~ StartWait(e), ~ CheckTime(e), ~ Reload(e)
       PROVE  call'[e].pc \notin {"sleep", "reload", "read"}
    <2>1. CASE LoadData(e)
        BY <1>1, <2>1 DEF LoadData, CallType
    <2>2. CASE ReadCounter(e)
        BY <1>1, <2>2 DEF ReadCounter, Deliver, Idle
    <2>3. CASE \/ Call(e) \/ OpenSession(e) \/ OpenFile(e) \/ WriteFile(e)
               \/ PublishKey(e) \/ AppendKey(e)
        BY <1>1, <2>3
           DEF Call, OpenSession, OpenFile, WriteFile, PublishKey, AppendKey, Goto, CallType
    <2>4. CASE CreateCounter(e) \/ CreateKeys(e) \/ Draw(e)
        <3>1. CASE CreateCounter(e)
            BY <1>1, <3>1 DEF CreateCounter, CallType
        <3>2. CASE CreateKeys(e)
            BY <1>1, <3>2 DEF CreateKeys, CallType
        <3>3. CASE Draw(e)
            <4>1. PICK n : call' = [call EXCEPT ![e].pc = "start", ![e].luck = n,
                                                ![e].since = 0]
                BY <3>3 DEF Draw
            <4>2. QED
                BY <1>1, <4>1 DEF CallType
        <3>4. QED
            BY <2>4, <3>1, <3>2, <3>3
    <2>5. CASE Increment(e)
        BY <1>1, <2>5 DEF Increment, CallType
    <2>6. CASE Fail(e) \/ Crash(e)
        BY <1>1, <2>6 DEF Fail, Crash, Idle
    <2>7. QED
        BY <1>10, <2>1, <2>2, <2>3, <2>4, <2>5, <2>6 DEF Step
<1>11. CASE UNCHANGED vars
    BY <1>3, <1>11 DEF vars
<1>12. QED
    BY <1>2, <1>3, <1>4, <1>5, <1>6, <1>7, <1>8, <1>9, <1>10, <1>11 DEF Next

\* A proof is made from a call whose wait is over.
LEMMA WaitedNext ==
    ASSUME WaitInv, [Next]_vars
    PROVE  WaitedForLuck'
<1>1. proof \in [Enclaves -> ProofType \cup {NoProof}]
    BY DEF WaitInv, TypeInv, TypeOK
<1>2. CASE proof' = proof
    BY <1>2 DEF WaitInv, WaitedForLuck, Proved
<1>3. ASSUME NEW e \in Enclaves, At(e, "read"), proof' = [proof EXCEPT ![e] = ProofOf(e)]
      PROVE  WaitedForLuck'
    <2>1. ProofOf(e).since >= WaitingPeriod(ProofOf(e).luck)
        BY <1>3 DEF At, ProofOf, WaitInv, WaitOK
    <2>2. QED
        BY <1>1, <1>3, <2>1 DEF WaitInv, WaitedForLuck, Proved
<1>4. QED
    BY <1>2, <1>3, ProofWriters

\* A proof never comes sooner after its lucky number was drawn than the number
\* allows, whatever the time source, the sleep and other processes do.
THEOREM WaitedForLuckAlways == Spec => []WaitedForLuck
<1>1. Init => WaitInv
    BY InitType DEF Init, Idle, WaitInv, WaitOK, WaitedForLuck, Proved
<1>2. WaitInv /\ [Next]_vars => WaitInv'
    BY TypeNext, WaitOKNext, WaitedNext DEF WaitInv
<1>3. WaitInv => WaitedForLuck
    BY DEF WaitInv
<1>4. QED
    BY <1>1, <1>2, <1>3, PTL DEF Spec

-----------------------------------------------------------------------------
(* Counters and keys.                                                      *)

\* Time changes nothing that has to do with counters and keys.
LEMMA TimeKeeps ==
    ASSUME TypeInv, Tick \/ NewNonce \/ UNCHANGED vars, NEW e \in Enclaves
    PROVE  /\ call'[e].mc = call[e].mc /\ call'[e].key = call[e].key
           /\ call'[e].ticket = call[e].ticket /\ call'[e].old = call[e].old
           /\ call'[e].rivals = call[e].rivals /\ call'[e].pc = call[e].pc
           /\ counters' = counters /\ file' = file /\ keysTxt' = keysTxt /\ made' = made
           /\ publicKey' = publicKey /\ callers' = callers
<1>1. call \in [Enclaves -> CallType] /\ call[e] \in CallType
    BY DEF TypeInv, TypeOK
<1>2. CASE Tick
    BY <1>1, <1>2 DEF Tick, CallType
<1>3. CASE NewNonce
    BY <1>1, <1>3 DEF NewNonce, CallType
<1>4. CASE UNCHANGED vars
    BY <1>4 DEF vars
<1>5. QED
    BY <1>2, <1>3, <1>4

\* A call takes its counter and key from the file, or makes them; its ticket,
\* and the rivals noted since, come with Increment.
LEMMA OwnCall ==
    ASSUME TypeInv, NEW e \in Enclaves, Call(e) \/ Step(e) \/ Fail(e) \/ Crash(e)
    PROVE  /\ \/ call'[e].mc = call[e].mc /\ call'[e].key = call[e].key
              \/ call'[e].key = NoKey
              \/ call'[e].mc = file.mc /\ call'[e].key = file.key
              \/ CreateKeys(e)
           /\ \/ /\ call'[e].ticket = call[e].ticket /\ call'[e].old = call[e].old
                 /\ call'[e].rivals = call[e].rivals
              \/ call'[e] = Idle
              \/ Increment(e)
<1>1. call \in [Enclaves -> CallType] /\ call[e] \in CallType
    BY DEF TypeInv, TypeOK
<1>2. CASE \/ Call(e) \/ OpenSession(e) \/ OpenFile(e) \/ WriteFile(e) \/ CheckTime(e)
           \/ PublishKey(e) \/ AppendKey(e)
    <2>1. PICK p : call' = [call EXCEPT ![e].pc = p]
        BY <1>2
           DEF Call, OpenSession, OpenFile, WriteFile, CheckTime, PublishKey, AppendKey, Goto
    <2>2. QED
        BY <1>1, <2>1 DEF CallType
<1>3. CASE LoadData(e)
    BY <1>1, <1>3 DEF LoadData, CallType
<1>4. CASE CreateCounter(e)
    <2>1. call[e].key = NoKey
        BY <1>4 DEF CreateCounter, At, TypeInv, CallsOK, HasKey, KeyAdded, HasTicket, Drawn
    <2>2. QED
        BY <1>1, <1>4, <2>1 DEF CreateCounter, CallType
<1>5. CASE CreateKeys(e)
    BY <1>1, <1>5 DEF CreateKeys, CallType
<1>6. CASE Increment(e)
    BY <1>1, <1>6 DEF Increment, CallType
<1>7. CASE Draw(e)
    <2>1. PICK n : call' = [call EXCEPT ![e].pc = "start", ![e].luck = n, ![e].since = 0]
        BY <1>7 DEF Draw
    <2>2. QED
        BY <1>1, <2>1 DEF CallType
<1>8. CASE StartWait(e)
    BY <1>1, <1>8 DEF StartWait, CallType
<1>9. CASE Reload(e)
    BY <1>1, <1>9 DEF Reload, Idle, CallType
<1>10. CASE ReadCounter(e) \/ Fail(e) \/ Crash(e)
    <2>1. call'[e] = Idle
        BY <1>1, <1>10 DEF ReadCounter, Deliver, Fail, Crash
    <2>2. QED
        BY <2>1 DEF Idle
<1>11. QED
    BY <1>2, <1>3, <1>4, <1>5, <1>6, <1>7, <1>8, <1>9, <1>10 DEF Step

\* What the others keep, field by field.
LEMMA OthersFields ==
    ASSUME TypeInv, NEW f \in Enclaves, Call(f) \/ Step(f) \/ Fail(f) \/ Crash(f),
           NEW e \in Enclaves, e # f
    PROVE  /\ call'[e].mc = call[e].mc /\ call'[e].key = call[e].key
           /\ call'[e].ticket = call[e].ticket /\ call'[e].old = call[e].old
           /\ call'[e].pc = call[e].pc
           /\ \/ call'[e].rivals = call[e].rivals
              \/ /\ At(f, "read") /\ counters[call[f].mc] = call[f].old
                 /\ counters' = counters
                 /\ call'[e].rivals = call[e].rivals \cup {RivalOf(f)}
<1>1. call[e] \in CallType
    BY CallFields
<1>2. CASE call'[e] = call[e]
    BY <1>2
<1>3. CASE /\ At(f, "read") /\ counters[call[f].mc] = call[f].old
           /\ counters' = counters
           /\ call'[e] = [call[e] EXCEPT !.rivals = call[e].rivals \cup {RivalOf(f)}]
    BY <1>1, <1>3 DEF CallType
<1>4. QED
    BY <1>2, <1>3, OthersKeep

\* What is paired has its type.
LEMMA PairType ==
    ASSUME TypeInv, NEW m, NEW k, Pair(m, k)
    PROVE  m \in 0 .. Len(counters) /\ k \in 0 .. made
<1>1. CASE \E e \in Enclaves : call[e].mc = m /\ call[e].key = k
    BY <1>1, CallFields
<1>2. CASE file.mc = m /\ file.key = k
    <2>1. Len(counters) \in Nat /\ made \in Nat /\ keysTxt \subseteq 0 .. made
        BY DEF TypeInv, TypeOK
    <2>2. CASE file \in {NoFile, EmptyFile}
        BY <1>2, <2>1, <2>2 DEF NoFile, EmptyFile
    <2>3. CASE file \in [mc : 1 .. Len(counters), key : keysTxt, is : {"sealed"}]
        <3>1. file.mc \in 1 .. Len(counters) /\ file.key \in keysTxt
            BY <2>3
        <3>2. m \in 1 .. Len(counters) /\ k \in keysTxt
            BY <1>2, <3>1, Zenon
        <3>3. m \in 0 .. Len(counters)
            BY <2>1, <3>2
        <3>4. k \in 0 .. made
            BY <2>1, <3>2, Zenon
        <3>5. QED
            BY <3>3, <3>4
    <2>4. QED
        BY <2>2, <2>3 DEF TypeInv, TypeOK
<1>3. CASE \E e \in Enclaves : \E r \in call[e].rivals : r.own /\ r.ticket = m /\ r.key = k
    <2>1. PICK r \in Rivals : r.ticket = m /\ r.key = k
        BY <1>3, CallFields
    <2>2. keysTxt \subseteq 0 .. made /\ 1 .. Len(counters) \subseteq 0 .. Len(counters)
        BY DEF TypeInv, TypeOK
    <2>3. QED
        BY <2>1, <2>2 DEF Rivals
<1>4. QED
    BY <1>1, <1>2, <1>3 DEF Pair

\* Only CreateKeys makes a new pair.
LEMMA PairNext ==
    ASSUME TypeInv, [Next]_vars, NEW m, NEW k, k # NoKey, Pair(m, k)'
    PROVE  \/ Pair(m, k)
           \/ \E e \in Enclaves : CreateKeys(e) /\ call'[e].mc = m /\ call'[e].key = k
<1>1. CASE Tick \/ NewNonce \/ UNCHANGED vars
    <2>1. \A e \in Enclaves : /\ call'[e].mc = call[e].mc /\ call'[e].key = call[e].key
                              /\ call'[e].rivals = call[e].rivals
        BY <1>1, TimeKeeps
    <2>2. file' = file
        BY <1>1 DEF Tick, NewNonce, vars
    <2>3. QED
        BY <2>1, <2>2 DEF Pair
<1>2. ASSUME NEW f \in Enclaves, Call(f) \/ Step(f) \/ Fail(f) \/ Crash(f)
      PROVE  \/ Pair(m, k)
             \/ CreateKeys(f) /\ call'[f].mc = m /\ call'[f].key = k
    <2>1. CASE \E e \in Enclaves : call'[e].mc = m /\ call'[e].key = k
        <3>1. PICK e \in Enclaves : call'[e].mc = m /\ call'[e].key = k
            BY <2>1
        <3>2. CASE e = f
            BY <1>2, <3>1, <3>2, OwnCall DEF Pair
        <3>3. CASE e # f
            <4>1. call'[e].mc = call[e].mc /\ call'[e].key = call[e].key
                BY <1>2, <3>3, OthersFields
            <4>2. QED
                BY <3>1, <4>1 DEF Pair
        <3>4. QED
            BY <3>2, <3>3
    <2>2. CASE (file.mc)' = m /\ (file.key)' = k
        <3>1. \/ file' = file
              \/ file' = EmptyFile
              \/ file' = [mc |-> call[f].mc, key |-> call[f].key, is |-> "sealed"]
            BY <1>2 DEF Call, Step, Fail, Crash, OpenSession, LoadData, CreateCounter,
                        CreateKeys,
                        PublishKey, AppendKey, Increment, OpenFile, WriteFile, Draw, StartWait,
                        CheckTime, Reload, ReadCounter
        <3>2. QED
            BY <2>2, <3>1 DEF EmptyFile, NoKey, Pair
    <2>3. CASE \E e \in Enclaves : \E r \in (call[e].rivals)' : r.own /\ r.ticket = m /\ r.key = k
        <3>0. PICK e \in Enclaves : \E r \in (call[e].rivals)' : r.own /\ r.ticket = m /\ r.key = k
            BY <2>3
        <3>1. PICK r \in (call[e].rivals)' : r.own /\ r.ticket = m /\ r.key = k
            BY <3>0
        <3>2. CASE r \in call[e].rivals
            BY <3>1, <3>2 DEF Pair
        <3>3. CASE r = RivalOf(f)
            BY <3>1, <3>3 DEF RivalOf, Pair
        <3>4. r \in call[e].rivals \/ r = RivalOf(f)
            <4>1. CASE e = f
                <5>1. ASSUME Increment(e) PROVE call'[e].rivals = {}
                    BY <5>1, CallFields DEF Increment, CallType, TypeInv, TypeOK
                <5>2. ASSUME call'[e] = Idle PROVE call'[e].rivals = {}
                    BY <5>2 DEF Idle
                <5>3. call'[e].rivals = call[e].rivals \/ call'[e].rivals = {}
                    BY <1>2, <4>1, <5>1, <5>2, OwnCall
                <5>4. QED
                    BY <3>1, <5>3
            <4>2. CASE e # f
                BY <1>2, <3>1, <4>2, OthersFields
            <4>3. QED
                BY <4>1, <4>2
        <3>5. QED
            BY <3>2, <3>3, <3>4
    <2>4. QED
        BY <2>1, <2>2, <2>3 DEF Pair
<1>3. QED
    BY <1>1, <1>2 DEF Next

\* A key stays with the counter it was made for.
LEMMA KeyOfCounterNext ==
    ASSUME TypeInv, KeyOfCounter, [Next]_vars
    PROVE  KeyOfCounter'
<1> SUFFICES ASSUME NEW m, NEW n, NEW k \in 1 .. made', Pair(m, k)', Pair(n, k)'
             PROVE  m = n
    BY DEF KeyOfCounter
<1>0. made \in Nat
    BY DEF TypeInv, TypeOK
<1>1. k # NoKey /\ k \in Nat
    BY KeysGrow DEF NoKey
<1>2. CASE Pair(m, k) /\ Pair(n, k)
    <2>1. k \in 1 .. made
        BY <1>0, <1>1, <1>2, PairType DEF NoKey
    <2>2. QED
        BY <1>2, <2>1, PairType DEF KeyOfCounter
<1>3. ASSUME NEW e \in Enclaves, CreateKeys(e), call'[e].key = k
      PROVE  /\ ~ Pair(m, k) /\ ~ Pair(n, k)
             /\ \A f \in Enclaves : CreateKeys(f) => f = e
    <2>1. call' = [call EXCEPT ![e].pc = "publish", ![e].key = made + 1]
        BY <1>3 DEF CreateKeys
    <2>2. k = made + 1
        BY <1>3, <2>1 DEF TypeInv, TypeOK, CallType
    <2>3. ASSUME NEW f \in Enclaves, f # e PROVE ~ CreateKeys(f)
        <3>1. call'[f] = call[f] /\ call[f].key \in 0 .. made
            BY <2>1, <2>3, CallFields DEF TypeInv, TypeOK
        <3>2. ASSUME CreateKeys(f) PROVE call'[f].key = k
            BY <2>2, <3>2, CallFields DEF CreateKeys, CallType, TypeInv, TypeOK
        <3>3. QED
            BY <1>0, <2>2, <3>1, <3>2
    <2>4. QED
        BY <1>0, <2>2, <2>3, PairType
<1>4. QED
    BY <1>1, <1>2, <1>3, PairNext

\* Increment draws a ticket that no other call has.
LEMMA IncrementFields ==
    ASSUME TypeInv, NEW e \in Enclaves, Increment(e)
    PROVE  /\ call[e].mc \in 1 .. Len(counters)
           /\ call'[e].ticket = call[e].mc /\ call'[e].rivals = {}
           /\ call'[e].old = counters[call[e].mc] + 1
           /\ counters'[call[e].mc] = counters[call[e].mc] + 1
<1>1. call[e].mc \in 1 .. Len(counters)
    BY CallFields DEF Increment, At, HasCounter, HasKey, KeyAdded
<1>2. counters \in Seq(Nat) /\ call \in [Enclaves -> CallType] /\ call[e] \in CallType
    BY DEF TypeInv, TypeOK
<1>3. counters' = [counters EXCEPT ![call[e].mc] = counters[call[e].mc] + 1]
    BY DEF Increment
<1>4. counters'[call[e].mc] = counters[call[e].mc] + 1
    BY <1>1, <1>2, <1>3
<1>5. QED
    BY <1>1, <1>2, <1>4 DEF Increment, CallType

\* Tickets change by Increment alone.
LEMMA TicketChange ==
    ASSUME TypeInv, NEW f \in Enclaves, Call(f) \/ Step(f) \/ Fail(f) \/ Crash(f),
           NEW e \in Enclaves
    PROVE  \/ call'[e].ticket = call[e].ticket /\ call'[e].old = call[e].old
           \/ call'[e].ticket = 0 /\ call'[e].rivals = {}
           \/ e = f /\ Increment(e)
<1>1. CASE e = f
    BY <1>1, OwnCall DEF Idle
<1>2. CASE e # f
    BY <1>2, OthersFields
<1>3. QED
    BY <1>1, <1>2

LEMMA TicketsDifferNext ==
    ASSUME TypeInv, TicketsDiffer, [Next]_vars
    PROVE  TicketsDiffer'
<1> SUFFICES ASSUME NEW e \in Enclaves, call'[e].ticket # 0
             PROVE  /\ call'[e].old <= counters'[call'[e].ticket]
                    /\ \A g \in Enclaves \ {e} :
                        call'[g].ticket = call'[e].ticket => call'[g].old # call'[e].old
    BY DEF TicketsDiffer
<1>1. CASE Tick \/ NewNonce \/ UNCHANGED vars
    <2>1. \A g \in Enclaves : call'[g].ticket = call[g].ticket /\ call'[g].old = call[g].old
        BY <1>1, TimeKeeps
    <2>2. counters' = counters
        BY <1>1, TimeKeeps
    <2>3. QED
        BY <2>1, <2>2 DEF TicketsDiffer
<1>2. ASSUME NEW f \in Enclaves, Call(f) \/ Step(f) \/ Fail(f) \/ Crash(f)
      PROVE  /\ call'[e].old <= counters'[call'[e].ticket]
             /\ \A g \in Enclaves \ {e} :
                    call'[g].ticket = call'[e].ticket => call'[g].old # call'[e].old
    <2>0. /\ \A g \in Enclaves : call[g].old \in Nat /\ call[g].ticket \in 0 .. Len(counters)
          /\ \A m \in 1 .. Len(counters) : counters[m] \in Nat /\ counters'[m] \in Nat
                                           /\ counters'[m] >= counters[m]
        <3>1. counters \in Seq(Nat) /\ Len(counters) \in Nat
            BY DEF TypeInv, TypeOK
        <3>2. counters' \in Seq(Nat) /\ Len(counters') >= Len(counters)
              /\ \A m \in 1 .. Len(counters) : counters'[m] >= counters[m]
            BY CountersGrow
        <3>3. QED
            BY <3>1, <3>2, CallFields
    <2>1. ASSUME NEW g \in Enclaves, call[g].ticket # 0
          PROVE  call[g].old <= counters[call[g].ticket]
        BY <2>1 DEF TicketsDiffer
    <2>2. CASE e = f /\ Increment(e)
        <3>1. call'[e].old <= counters'[call'[e].ticket]
            BY <2>0, <2>2, IncrementFields
        <3>2. ASSUME NEW g \in Enclaves \ {e}, call'[g].ticket = call'[e].ticket
              PROVE  call'[g].old # call'[e].old
            <4>1. call'[g].ticket = call[g].ticket /\ call'[g].old = call[g].old
                BY <1>2, <2>2, OthersFields
            <4>2. call[g].old <= counters[call[e].mc]
                BY <2>1, <2>2, <3>2, <4>1, IncrementFields
            <4>3. QED
                BY <2>0, <2>2, <4>1, <4>2, IncrementFields
        <3>3. QED
            BY <3>1, <3>2
    <2>3. CASE call'[e].ticket = call[e].ticket /\ call'[e].old = call[e].old
        <3>1. call[e].ticket \in 1 .. Len(counters)
            BY <2>0, <2>3
        <3>2. call'[e].old <= counters'[call'[e].ticket]
            BY <2>0, <2>1, <2>3, <3>1
        <3>3. ASSUME NEW g \in Enclaves \ {e}, call'[g].ticket = call'[e].ticket
              PROVE  call'[g].old # call'[e].old
            <4>1. CASE call'[g].ticket = call[g].ticket /\ call'[g].old = call[g].old
                BY <2>3, <3>3, <4>1 DEF TicketsDiffer
            <4>2. CASE Increment(g)
                <5>1. call[g].mc = call[e].ticket /\ call'[g].old = counters[call[e].ticket] + 1
                    BY <2>3, <3>3, <4>2, IncrementFields
                <5>2. QED
                    BY <2>0, <2>1, <2>3, <3>1, <5>1
            <4>3. QED
                BY <1>2, <3>3, <4>1, <4>2, TicketChange
        <3>4. QED
            BY <3>2, <3>3
    <2>4. QED
        BY <1>2, <2>2, <2>3, TicketChange
<1>3. QED
    BY <1>1, <1>2 DEF Next

\* The rival that gets its proof read its own ticket off the counter; the
\* ticket of the other is another one, and so a smaller one.
LEMMA TicketIsSpentNext ==
    ASSUME TypeInv, TicketsDiffer, TicketIsSpent, [Next]_vars
    PROVE  TicketIsSpent'
<1> SUFFICES ASSUME NEW e \in Enclaves, NEW r \in (call[e].rivals)',
                    r.own, r.ticket = call'[e].ticket
             PROVE  counters'[call'[e].ticket] > call'[e].old
    BY DEF TicketIsSpent
<1>0. /\ call[e].old \in Nat /\ call[e].ticket \in 0 .. Len(counters)
      /\ \A m \in 1 .. Len(counters) : counters[m] \in Nat /\ counters'[m] \in Nat
                                       /\ counters'[m] >= counters[m]
    <2>1. counters \in Seq(Nat) /\ Len(counters) \in Nat
        BY DEF TypeInv, TypeOK
    <2>2. counters' \in Seq(Nat) /\ Len(counters') >= Len(counters)
          /\ \A m \in 1 .. Len(counters) : counters'[m] >= counters[m]
        BY CountersGrow
    <2>3. QED
        BY <2>1, <2>2, CallFields, SMTT(60)
<1>1. ASSUME r \in call[e].rivals,
             call'[e].ticket = call[e].ticket, call'[e].old = call[e].old
      PROVE  counters'[call'[e].ticket] > call'[e].old
    <2>1. r.ticket \in 1 .. Len(counters)
        BY <1>1, CallFields DEF Rivals
    <2>2. counters[call[e].ticket] > call[e].old
        BY <1>1 DEF TicketIsSpent
    <2>3. QED
        BY <1>0, <1>1, <2>1, <2>2
<1>2. CASE Tick \/ NewNonce \/ UNCHANGED vars
    BY <1>1, <1>2, TimeKeeps
<1>3. ASSUME NEW f \in Enclaves, Call(f) \/ Step(f) \/ Fail(f) \/ Crash(f)
      PROVE  counters'[call'[e].ticket] > call'[e].old
    <2>1. CASE e = f
        <3>1. call'[e].rivals # {}
            OBVIOUS
        <3>2. QED
            BY <1>1, <1>3, <2>1, <3>1, OwnCall, IncrementFields DEF Idle
    <2>2. CASE e # f /\ r \in call[e].rivals
        BY <1>1, <1>3, <2>2, OthersFields
    <2>3. CASE e # f /\ r = RivalOf(f) /\ At(f, "read")
                 /\ counters[call[f].mc] = call[f].old /\ counters' = counters
        <3>1. call'[e].ticket = call[e].ticket /\ call'[e].old = call[e].old
            BY <1>3, <2>3, OthersFields
        <3>2. call[f].mc = call[f].ticket /\ call[f].ticket = call[e].ticket
            BY <2>3, <3>1 DEF RivalOf
        <3>3. call[f].ticket \in 1 .. Len(counters)
            BY <2>3, CallFields DEF At, HasTicket, Drawn
        <3>4. call[e].old <= counters[call[e].ticket] /\ call[e].old # call[f].old
            BY <2>3, <3>2, <3>3 DEF TicketsDiffer
        <3>5. counters[call[e].ticket] = call[f].old /\ counters[call[e].ticket] \in Nat
            BY <1>0, <2>3, <3>2, <3>3
        <3>6. QED
            BY <1>0, <2>3, <3>1, <3>4, <3>5
    <2>4. QED
        BY <1>3, <2>1, <2>2, <2>3, OthersFields
<1>4. QED
    BY <1>2, <1>3 DEF Next

\* A proof of a rival with the same key was a proof of the same counter, which
\* has then passed this ticket.
LEMMA OneProofNext ==
    ASSUME TypeInv, KeyOfCounter, TicketIsSpent, OneProofPerCounter, [Next]_vars
    PROVE  OneProofPerCounter'
<1>1. CASE proof' = proof
    BY <1>1 DEF OneProofPerCounter, Proved
<1>2. ASSUME NEW e \in Enclaves, At(e, "read"), counters[call[e].mc] = call[e].old,
             proof' = [proof EXCEPT ![e] = ProofOf(e)]
      PROVE  OneProofPerCounter'
    <2>1. proof \in [Enclaves -> ProofType \cup {NoProof}]
        BY DEF TypeInv, TypeOK
    <2>2. ASSUME call[e].mc = call[e].ticket, NEW r \in call[e].rivals, r.own,
                 r.key = call[e].key
          PROVE  FALSE
        <3>1. call[e].mc \in 1 .. Len(counters) /\ call[e].key \in 1 .. made
              /\ r \in Rivals /\ call[e].old \in Nat
            BY <1>2, CallFields DEF At, HasCounter, HasKey, KeyAdded, HasTicket, Drawn, NoKey
        <3>2. Pair(call[e].mc, call[e].key) /\ Pair(r.ticket, call[e].key)
            BY <2>2 DEF Pair
        <3>3. Len(counters) \in Nat /\ r.ticket \in 1 .. Len(counters)
            BY <3>1 DEF Rivals, TypeInv, TypeOK
        <3>4. r.ticket = call[e].mc
            BY <3>1, <3>2, <3>3 DEF KeyOfCounter
        <3>5. counters[call[e].ticket] > call[e].old
            BY <2>2, <3>4 DEF TicketIsSpent
        <3>6. QED
            BY <1>2, <2>2, <3>1, <3>5
    <2>3. proof'[e].own => \A r \in (proof[e].rivals)' : r.own => r.key # proof'[e].key
        BY <1>2, <2>1, <2>2 DEF ProofOf
    <2>4. \A g \in Enclaves \ {e} : proof'[g] = proof[g]
        BY <1>2, <2>1
    <2>5. QED
        BY <2>3, <2>4 DEF OneProofPerCounter, Proved
<1>3. QED
    BY <1>1, <1>2, ProofWriters

\* Of overlapping calls with one counter at most one gets a proof, for any
\* number of processes and whenever they die.
THEOREM OneProofPerCounterAlways == Spec => []OneProofPerCounter
<1>1. Init => TicketInv
    <2> SUFFICES ASSUME Init PROVE TicketInv
        OBVIOUS
    <2>1. TypeInv
        BY InitType
    <2>2. \A e \in Enclaves : call[e].ticket = 0 /\ call[e].rivals = {} /\ proof[e] = NoProof
        BY DEF Init, Idle
    <2>3. KeyOfCounter
        BY DEF Init, KeyOfCounter
    <2>4. QED
        BY <2>1, <2>2, <2>3
           DEF TicketInv, TicketsDiffer, TicketIsSpent, OneProofPerCounter, Proved
<1>2. TicketInv /\ [Next]_vars => TicketInv'
    BY TypeNext, KeyOfCounterNext, TicketsDifferNext, TicketIsSpentNext, OneProofNext
       DEF TicketInv
<1>3. TicketInv => OneProofPerCounter
    BY DEF TicketInv
<1>4. QED
    BY <1>1, <1>2, <1>3, PTL DEF Spec

-----------------------------------------------------------------------------
(* The key that the network knows.                                         *)

\* One process: what its step makes of its key, the file and publicKey.txt.
LEMMA OneCallerNext ==
    ASSUME CallerInv, [Next]_vars
    PROVE  OneCaller'
<1>0. TypeInv /\ IsFiniteSet(callers)
    BY DEF CallerInv, OneCaller
<1>1. CASE Tick \/ NewNonce \/ UNCHANGED vars
    <2>1. /\ file' = file /\ publicKey' = publicKey /\ callers' = callers
          /\ \A e \in Enclaves : call'[e].pc = call[e].pc /\ call'[e].key = call[e].key
        BY <1>0, <1>1, TimeKeeps DEF Tick, NewNonce, vars
    <2>2. QED
        BY <2>1, SMTT(60) DEF CallerInv, OneCaller
<1>2. ASSUME NEW f \in Enclaves, Call(f) \/ Step(f) \/ Fail(f) \/ Crash(f)
      PROVE  OneCaller'
    <2>1. callers' = callers \cup {f}
        <3>1. CASE Call(f)
            BY <3>1 DEF Call
        <3>2. CASE ~ Call(f)
            <4>1. call[f].pc # "idle"
                BY <1>2, <3>2
                   DEF Step, Fail, Crash, OpenSession, LoadData, CreateCounter, CreateKeys,

                       PublishKey, AppendKey, Increment, OpenFile, WriteFile, Draw,
                       StartWait, CheckTime, Reload, ReadCounter, At
            <4>2. callers' = callers
                BY <1>2, <3>2
                   DEF Step, Fail, Crash, OpenSession, LoadData, CreateCounter, CreateKeys,

                       PublishKey, AppendKey, Increment, OpenFile, WriteFile, Draw,
                       StartWait, CheckTime, Reload, ReadCounter
            <4>3. QED
                BY <4>1, <4>2, SMTT(60) DEF CallerInv, OneCaller
        <3>3. QED
            BY <3>1, <3>2
    <2>2. IsFiniteSet(callers')
        BY <1>0, <2>1, FS_AddElement
    <2>3. \A e \in Enclaves : call'[e].pc # "idle" => e \in callers'
        BY <1>0, <1>2, <2>1, OthersFields DEF CallerInv, OneCaller
    <2>4. ASSUME Cardinality(callers') <= 1
          PROVE  /\ file'.is = "sealed" => (file.key)' = publicKey'
                 /\ \A e \in Enclaves :
                     /\ call'[e].pc \in {"create", "keys", "publish", "append"} =>
                            file'.is # "sealed"
                     /\ call'[e].pc \in {"append", "increment", "open", "write"} =>
                            call'[e].key = publicKey'
        <3>1. Cardinality(callers) <= 1
            <4>1. Cardinality(callers) <= Cardinality(callers')
                BY <2>1, <2>2, FS_Subset
            <4>2. Cardinality(callers) \in Nat /\ Cardinality(callers') \in Nat
                BY <1>0, <2>2, FS_CardinalityType
            <4>3. QED
                BY <2>4, <4>1, <4>2
        <3>2. ASSUME NEW e \in Enclaves, e # f PROVE call'[e].pc = "idle"
            <4>1. CASE e \in callers'
                <5>1. {e, f} \subseteq callers'
                    BY <2>1, <4>1
                <5>2. Cardinality({e, f}) = 2
                    <6>1. Cardinality({e}) = 1 /\ IsFiniteSet({e})
                        BY FS_Singleton
                    <6>2. {e, f} = {e} \cup {f} /\ f \notin {e}
                        BY <3>2
                    <6>3. QED
                        BY <6>1, <6>2, FS_AddElement
                <5>3. QED
                    BY <2>2, <2>4, <5>1, <5>2, FS_Subset, FS_CardinalityType
            <4>2. QED
                BY <2>3, <4>1
        <3>3. /\ file.is = "sealed" => file.key = publicKey
              /\ call[f].pc \in {"create", "keys", "publish", "append"} => file.is # "sealed"
              /\ call[f].pc \in {"append", "increment", "open", "write"} =>
                    call[f].key = publicKey
            BY <3>1 DEF CallerInv, OneCaller
        <3>4. call \in [Enclaves -> CallType] /\ call[f] \in CallType
            BY <1>0 DEF TypeInv, TypeOK
        <3> SUFFICES /\ file'.is = "sealed" => (file.key)' = publicKey'
                     /\ call'[f].pc \in {"create", "keys", "publish", "append"} =>
                            file'.is # "sealed"
                     /\ call'[f].pc \in {"append", "increment", "open", "write"} =>
                            call'[f].key = publicKey'
            BY <3>2
        <3>5. CASE LoadData(f)
            BY <3>3, <3>4, <3>5 DEF LoadData, CallType
        <3>6. CASE CreateCounter(f)
            BY <3>3, <3>4, <3>6 DEF CreateCounter, At, CallType
        <3>7. CASE CreateKeys(f) \/ PublishKey(f) \/ AppendKey(f)
            <4>1. file.is # "sealed" /\ file' = file
                BY <3>3, <3>7 DEF CreateKeys, PublishKey, AppendKey, At
            <4>2. CASE CreateKeys(f)
                BY <3>4, <4>1, <4>2 DEF CreateKeys, CallType
            <4>3. CASE PublishKey(f)
                BY <3>4, <4>1, <4>3 DEF PublishKey, Goto, CallType
            <4>4. CASE AppendKey(f)
                BY <3>3, <3>4, <4>1, <4>4 DEF AppendKey, At, Goto, CallType
            <4>5. QED
                BY <3>7, <4>2, <4>3, <4>4
        <3>8. CASE Increment(f)
            BY <3>3, <3>4, <3>8 DEF Increment, At, CallType
        <3>9. CASE OpenFile(f)
            BY <3>3, <3>4, <3>9 DEF OpenFile, At, Goto, CallType, EmptyFile
        <3>10. CASE WriteFile(f)
            BY <3>3, <3>4, <3>10 DEF WriteFile, At, Goto, CallType
        <3>11. CASE Call(f) \/ OpenSession(f) \/ StartWait(f) \/ CheckTime(f)
            BY <3>3, <3>4, <3>11 DEF Call, OpenSession, StartWait, CheckTime, Goto, CallType
        <3>12. CASE Draw(f)
            <4>1. PICK n : call' = [call EXCEPT ![f].pc = "start", ![f].luck = n,
                                                ![f].since = 0]
                BY <3>12 DEF Draw
            <4>2. QED
                BY <3>3, <3>4, <3>12, <4>1 DEF Draw, CallType
        <3>13. CASE Reload(f)
            BY <3>3, <3>4, <3>13 DEF Reload, Idle, CallType
        <3>14. CASE ReadCounter(f) \/ Fail(f) \/ Crash(f)
            <4>1. call'[f] = Idle /\ file' = file /\ publicKey' = publicKey
                BY <3>4, <3>14 DEF ReadCounter, Deliver, Fail, Crash
            <4>2. QED
                BY <3>3, <4>1 DEF Idle
        <3>15. QED
            BY <1>2, <3>5, <3>6, <3>7, <3>8, <3>9, <3>10, <3>11, <3>12, <3>13, <3>14 DEF Step
    <2>5. QED
        BY <2>2, <2>3, <2>4 DEF OneCaller
<1>3. QED
    BY <1>1, <1>2 DEF Next

\* As long as one process calls, the key in the file is the one published,
\* wherever its calls end.
THEOREM PublishedKeySignsAlways == Spec => []PublishedKeySigns
<1>1. Init => CallerInv
    BY InitType, FS_EmptySet DEF Init, Idle, NoFile, CallerInv, OneCaller
<1>2. CallerInv /\ [Next]_vars => CallerInv'
    BY TypeNext, OneCallerNext DEF CallerInv
<1>3. CallerInv => PublishedKeySigns
    BY DEF CallerInv, OneCaller, PublishedKeySigns
<1>4. QED
    BY <1>1, <1>2, <1>3, PTL DEF Spec
=============================================================================
