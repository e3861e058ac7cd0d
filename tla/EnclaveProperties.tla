--------------------------- MODULE EnclaveProperties ---------------------------
(***************************************************************************)
(* What a proof of luck must be worth: Enclave.                            *)
(***************************************************************************)
EXTENDS Enclave

Places == {"idle", "session", "load", "create", "keys", "publish", "append", "increment",
           "open", "write", "draw", "start", "sleep", "reload", "read"}

Rivals == [key : keysTxt, ticket : 1 .. Len(counters), own : BOOLEAN]

CallType ==
    [pc : Places, mc : 0 .. Len(counters), key : 0 .. made, old : Nat,
     luck : Lucks \cup {0}, slept : 0 .. MaxWait, changed : BOOLEAN,
     ticket : 0 .. Len(counters), since : 0 .. MaxWait, rivals : SUBSET Rivals]

ProofType ==
    [key : keysTxt, luck : Lucks, since : 0 .. MaxWait, own : BOOLEAN, rivals : SUBSET Rivals]

\* A process that dies, or cannot open keys.txt, may leave a key in
\* publicKey.txt that is in no other file; the key in the sealed file, and one
\* that signs a proof, is in keys.txt.
TypeOK ==
    /\ call \in [Enclaves -> CallType]
    /\ file \in {NoFile, EmptyFile}
              \cup [mc : 1 .. Len(counters), key : keysTxt, is : {"sealed"}]
    /\ counters \in Seq(Nat)
    /\ made \in Nat
    /\ keysTxt \subseteq 1 .. made /\ publicKey \in 0 .. made
    /\ proof \in [Enclaves -> ProofType \cup {NoProof}]
    /\ calls \in 0 .. MaxCalls /\ callers \subseteq Enclaves
    /\ nonces \in 0 .. MaxNonces

Proved == {e \in Enclaves : proof[e] # NoProof}

\* A proof comes no sooner after its lucky number was drawn than the number
\* allows, whatever happens to the time source and however early the
\* untrusted sleep returns.
WaitedForLuck ==
    \A e \in Proved : proof[e].since >= WaitingPeriod(proof[e].luck)

\* Of two calls with the same counter at most one gets a proof if they
\* overlap: the earlier proof is no rival of the later one.
OneProofPerCounter ==
    \A e \in Proved : proof[e].own =>
        \A r \in proof[e].rivals : r.own => r.key # proof[e].key

\* As long as one process calls, however its calls fail and wherever it dies,
\* the key that signs the proofs is the key that publicKey.txt shares with the
\* network.
PublishedKeySigns ==
    Cardinality(callers) <= 1 /\ file.is = "sealed" => file.key = publicKey

\* Every call of the enclave returns.
Returns == \A e \in Enclaves : ~ At(e, "idle") ~> At(e, "idle")

-----------------------------------------------------------------------------
(* What the comments of the code say, and the code does not do.            *)

\* The counter is there "to prevent concurrency" (Enclave.cpp:31) and "checks
\* if another enclave is running" (Enclave.cpp:103): two overlapping calls do
\* not both get a proof with the same key.
NoConcurrentProofs ==
    \A e \in Proved : \A r \in proof[e].rivals : r.key # proof[e].key

\* "Writes the public key to a .txt file so that it can be used for verifying
\* blocks" (App.cpp:255): the key that is shared with the network is there.
PublishedKeyVerifies == publicKey # NoKey => publicKey \in keysTxt

\* "The keys will be new generated if and only if the file with the keys does
\* not exist." (Enclave.cpp:44)
KeysOnlyWhenNoFile == [][made' # made => file = NoFile]_vars
=============================================================================
