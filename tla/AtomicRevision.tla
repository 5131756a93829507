--------------------------- MODULE AtomicRevision ---------------------------
(***************************************************************************)
(* What the task artifact transaction promises to its callers: a task      *)
(* always has one revision, a commit replaces it in a single step or not   *)
(* at all, and the answer a caller receives tells which of the two.        *)
(*                                                                         *)
(* The promise is stated in the design document                            *)
(* docs/design-docs/2026-07-19-worker-atomic-artifact-commit.md and in     *)
(* contracts/task-artifact-transaction-v1.json; TaskTransaction.tla models *)
(* the journal that implements it and is checked to refine this module.    *)
(***************************************************************************)
CONSTANTS Client,   \* the desktop operations and workers that use one task
          Dest,     \* the closed set of artifact destinations
          Content,  \* what a destination may hold
          Absent,   \* the destination has no file
          Keep      \* a request does not mention the destination

VARIABLES revision,  \* the one authoritative revision of the task
          request,   \* the mutations of the commit a client has asked for
          call       \* how far that commit is, as its caller sees it

vars == <<revision, request, call>>

Revisions == [Dest -> Content \cup {Absent}]

Requests == [Dest -> Content \cup {Absent, Keep}]

\* The revision that results from applying every mutation of a request.
Overlay(rev, req) == [d \in Dest |-> IF req[d] = Keep THEN rev[d] ELSE req[d]]

TypeOK ==
    /\ revision \in Revisions
    /\ request \in [Client -> Requests]
    /\ call \in [Client -> {"none", "pending", "applied", "ok", "failed"}]

Init ==
    /\ revision \in Revisions
    /\ request = [c \in Client |-> [d \in Dest |-> Keep]]
    /\ call = [c \in Client |-> "none"]

\* A client asks for a commit.
Ask(c) ==
    /\ call[c] \notin {"pending", "applied"}
    /\ \E req \in Requests : request' = [request EXCEPT ![c] = req]
    /\ call' = [call EXCEPT ![c] = "pending"]
    /\ UNCHANGED revision

\* The commit point: every mutation takes effect at once.
Apply(c) ==
    /\ call[c] = "pending"
    /\ revision' = Overlay(revision, request[c])
    /\ call' = [call EXCEPT ![c] = "applied"]
    /\ UNCHANGED request

\* Only an applied commit is reported as a success ...
Succeed(c) ==
    /\ call[c] = "applied"
    /\ call' = [call EXCEPT ![c] = "ok"]
    /\ UNCHANGED <<revision, request>>

\* ... and only one that has had no effect is reported as a failure.
Refuse(c) ==
    /\ call[c] = "pending"
    /\ call' = [call EXCEPT ![c] = "failed"]
    /\ UNCHANGED <<revision, request>>

\* Clients that return, are killed or crash take no answer with them.
Forget(cs) ==
    /\ call' = [c \in Client |-> IF c \in cs THEN "none" ELSE call[c]]
    /\ request' = [c \in Client |-> IF c \in cs THEN [d \in Dest |-> Keep]
                                    ELSE request[c]]
    /\ UNCHANGED revision

Next ==
    \/ \E c \in Client : Ask(c) \/ Apply(c) \/ Succeed(c) \/ Refuse(c)
    \/ \E cs \in SUBSET Client : Forget(cs)

Spec == Init /\ [][Next]_vars
=============================================================================
