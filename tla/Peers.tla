-------------------------------- MODULE Peers --------------------------------
(***************************************************************************)
(* How nodes find each other and keep track of their connections:          *)
(* PeerManager, Server and the slots of Client that own the table "peers"  *)
(* (src/Network/peermanager.cpp, server.cpp, client.cpp), with the test    *)
(* mode's list of keys that lives and dies with the connections.           *)
(*                                                                         *)
(* Nodes have one address each.  What happens inside a connection until it *)
(* is ready is the module Connection; here it is one step per end.         *)
(***************************************************************************)
EXTENDS Integers, Sequences, SequencesExt

CONSTANTS
    Nodes,     \* hosts, each with one process; a node stands for its key, too
    MaxLinks,  \* bound: connections at one time
    MaxLosses, \* bound: ends that are closed by a fault
    MaxToggles \* bound: times that the test mode is switched

ASSUME PeersAssumption == MaxLinks \in Nat /\ MaxLosses \in Nat /\ MaxToggles \in Nat

VARIABLES
    link,     \* the TCP connections
    peers,    \* each node's table of connections
    testKeys, \* each node's testModePublicKeys
    testing,  \* nodes whose test mode is on
    losses,   \* ends closed by a fault so far
    toggles   \* switches of the test mode so far

peersVars == <<link, peers, testKeys, testing, losses, toggles>>

Links == 1 .. MaxLinks

\* An end is open (the greeting is under way), ready or closed.  "knows" are
\* the ends that have the other's key; "mail" is what is on the way to an end.
NewLink(m, n) ==
    [by |-> {m}, ends |-> {m, n}, greeted |-> FALSE, knows |-> {},
     state |-> [x \in Nodes |-> IF x \in {m, n} THEN "open" ELSE "closed"],
     mail |-> [x \in Nodes |-> <<>>]]
NoLink == [by |-> {}, ends |-> {}, greeted |-> FALSE, knows |-> {},
           state |-> [x \in Nodes |-> "closed"], mail |-> [x \in Nodes |-> <<>>]]

Open(l, n) == link[l].state[n] # "closed"

\* peers.values(address of m).
Connections(n, m) == {l \in peers[n] : m \in link[l].ends}

PeersInit ==
    /\ link = [l \in Links |-> NoLink]
    /\ peers = [n \in Nodes |-> {}]
    /\ testKeys = [n \in Nodes |-> <<>>]
    /\ testing = {}
    /\ losses = 0 /\ toggles = 0

-----------------------------------------------------------------------------
(* Discovery.                                                              *)

\* readBroadcastDatagram: n hears from m, which is not in its table, and
\* connects; m's server accepts.  A connection whose greeting is under way is
\* not in the table.
ReadBroadcastDatagram(n, m) ==
    /\ Connections(n, m) = {}
    /\ \E l \in Links :
        /\ \A k \in 1 .. l : (k = l) <=> \A x \in Nodes : ~ Open(k, x)
        /\ link' = [link EXCEPT ![l] = NewLink(n, m)]
    /\ UNCHANGED <<peers, testKeys, testing, losses, toggles>>

\* Mutant of ReadyForUse: the acceptor does not greet in turn.
ReadyForUseSilent(l, n) ==
    /\ link[l].state[n] = "open"
    /\ n \in link[l].by => link[l].greeted
    /\ link' = [link EXCEPT ![l].state[n] = "ready"]
    /\ peers' = [peers EXCEPT ![n] = @ \cup {l}]
    /\ UNCHANGED <<testKeys, testing, losses, toggles>>

\* Client::readyForUse, when the greeting has come: the initiator's with the
\* connection, the acceptor's in answer to it.
ReadyForUse(l, n) ==
    /\ link[l].state[n] = "open"
    /\ n \in link[l].by => link[l].greeted
    /\ link' = [link EXCEPT ![l].state[n] = "ready", ![l].greeted = TRUE]
    /\ peers' = [peers EXCEPT ![n] = @ \cup {l}]
    /\ UNCHANGED <<testKeys, testing, losses, toggles>>

\* The answer to PUBLICKEY_REQUEST sets publicKeyToAddress.
PublicKeyResponse(l, n) ==
    /\ link[l].state[n] = "ready"
    /\ \E m \in link[l].ends \ {n} : link[l].state[m] = "ready"
    /\ n \notin link[l].knows
    /\ link' = [link EXCEPT ![l].knows = @ \cup {n}]
    /\ UNCHANGED <<peers, testKeys, testing, losses, toggles>>

-----------------------------------------------------------------------------
(* The test mode.                                                          *)

\* addToList and removeFromList: to every connection of the table.
Announce(n, what) ==
    link' = [l \in Links |->
        IF l \in peers[n]
        THEN [link[l] EXCEPT !.mail = [m \in Nodes |->
                 IF m \in link[l].ends \ {n} THEN Append(link[l].mail[m], what) ELSE link[l].mail[m]]]
        ELSE link[l]]

\* The check box of the test mode.
Toggle(n) ==
    /\ toggles < MaxToggles
    /\ toggles' = toggles + 1
    /\ IF n \in testing
       THEN testing' = testing \ {n} /\ Announce(n, "PUBLICKEY_REMOVE")
       ELSE testing' = testing \cup {n} /\ Announce(n, "PUBLICKEY_ADD")
    /\ UNCHANGED <<peers, testKeys, losses>>

\* removePublicKeyFromTestNetwork: the loop erases without i--, so the key
\* behind an erased one is not looked at.
Erase(keys, k) ==
    FoldLeft(LAMBDA acc, x : IF acc.skip \/ x # k
                             THEN [out |-> Append(acc.out, x), skip |-> FALSE]
                             ELSE [acc EXCEPT !.skip = TRUE],
             [out |-> <<>>, skip |-> FALSE], keys).out

\* addPublicKeyFromTestNetwork and removePublicKeyFromTestNetwork.
TestModeMessage(l, n) ==
    /\ link[l].state[n] = "ready"
    /\ link[l].mail[n] # <<>>
    /\ link' = [link EXCEPT ![l].mail[n] = Tail(@)]
    /\ \E m \in link[l].ends \ {n} :
        testKeys' = [testKeys EXCEPT ![n] =
            IF Head(link[l].mail[n]) = "PUBLICKEY_ADD" THEN Append(@, m) ELSE Erase(@, m)]
    /\ UNCHANGED <<peers, testing, losses, toggles>>

-----------------------------------------------------------------------------
(* The end of a connection.                                                *)

\* Mutant of RemoveConnection: the table loses one connection to the address,
\* not always the one that was closed.
RemoveConnectionFirst(l, n) ==
    \E m \in link[l].ends \ {n} :
        /\ link' = [link EXCEPT ![l].state[n] = "closed", ![l].mail[n] = <<>>]
        /\ IF Connections(n, m) = {} THEN UNCHANGED <<peers, testKeys>>
           ELSE /\ \E first \in Connections(n, m) :
                    /\ \A k \in Connections(n, m) : first <= k
                    /\ peers' = [peers EXCEPT ![n] = @ \ {first}]
                /\ UNCHANGED testKeys

\* removeConnection of n's end of l: the table loses every connection to the
\* address, the list the key that came over l.
RemoveConnection(l, n) ==
    \E m \in link[l].ends \ {n} :
        /\ link' = [link EXCEPT ![l].state[n] = "closed", ![l].mail[n] = <<>>]
        /\ IF Connections(n, m) = {} THEN UNCHANGED <<peers, testKeys>>
           ELSE /\ peers' = [peers EXCEPT ![n] = @ \ Connections(n, m)]
                /\ testKeys' = IF n \in link[l].knows
                               THEN [testKeys EXCEPT ![n] = Erase(@, m)] ELSE testKeys

\* A fault closes n's end: a timer, an unknown message, a lost route.
Lose(l, n) ==
    /\ losses < MaxLosses
    /\ Open(l, n)
    /\ losses' = losses + 1
    /\ RemoveConnection(l, n)
    /\ UNCHANGED <<testing, toggles>>

\* n hears that the other end is closed; abort() may have dropped the mail.
EndDisconnected(l, n) ==
    /\ Open(l, n)
    /\ \E m \in link[l].ends \ {n} : ~ Open(l, m)
    /\ RemoveConnection(l, n)
    /\ UNCHANGED <<testing, losses, toggles>>

\* What goes on by itself at n's end of l.
Proceed(l, n) ==
    ReadyForUse(l, n) \/ PublicKeyResponse(l, n) \/ TestModeMessage(l, n) \/ EndDisconnected(l, n)

PeersNext ==
    \/ \E n \in Nodes, m \in Nodes : n # m /\ ReadBroadcastDatagram(n, m)
    \/ \E l \in Links, n \in Nodes : Proceed(l, n) \/ Lose(l, n)
    \/ \E n \in Nodes : Toggle(n)

\* Broadcasts are repeated every BroadcastInterval, and what is under way in
\* a connection comes to an end.
PeersFairness ==
    /\ \A n, m \in Nodes : WF_peersVars(n # m /\ ReadBroadcastDatagram(n, m))
    /\ \A l \in Links, n \in Nodes : WF_peersVars(Proceed(l, n))

PeersSpec == PeersInit /\ [][PeersNext]_peersVars
PeersFairSpec == PeersSpec /\ PeersFairness
=============================================================================
