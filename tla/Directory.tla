----------------------------- MODULE Directory -----------------------------
(***************************************************************************)
(* The directory of the token service: identities, contact requests,       *)
(* contacts and blocks (token-svc/app/directory.py behind the routes of    *)
(* v2_api.py).  A handler reads its request, then runs one database        *)
(* transaction without another await, in the only process the service is   *)
(* deployed with: it is one step.  A request that is refused raises, which *)
(* rolls the transaction back, so only the answered ones are steps.        *)
(*                                                                         *)
(* Times are kept as what is left of them: expires_at > now is left > 0.   *)
(***************************************************************************)
EXTENDS Integers, FiniteSets

CONSTANTS
  Pk,              \* public keys, ordered as the bytes they are
  Callsign,
  Wishes,          \* the callsigns each holder of a key may choose
  Asks,            \* who may think of asking whom, <<from, to>>
  RequestTtl,      \* REQUEST_TTL_S in ticks
  MaxOutstanding   \* MAX_OUTSTANDING

ASSUME DirectoryAssumption ==
  /\ Pk \subseteq Nat
  /\ Wishes \in [Pk -> SUBSET Callsign]
  /\ Asks \subseteq Pk \X Pk
  /\ RequestTtl \in Nat \ {0} /\ MaxOutstanding \in Nat \ {0}

NoName == "unregistered"

VARIABLES
  callsign,   \* identities: the callsign registered for a key
  req,        \* contact_requests: the state of the row <<from, to>>
  left,       \* and what is left of it while it is pending
  contacts,   \* contacts: sets of two keys (the row holds them in order)
  blocks      \* blocks: <<blocker, blocked>>

dirVars == <<callsign, req, left, contacts, blocks>>

RequestState == {"none", "pending", "declined", "accepted", "expired"}
Pair == {{a, b} : a, b \in Pk}

DirTypeOK ==
  /\ callsign \in [Pk -> Callsign \cup {NoName}]
  /\ req \in [Pk \X Pk -> RequestState]
  /\ left \in [Pk \X Pk -> 0..RequestTtl]
  /\ contacts \subseteq Pair
  /\ blocks \subseteq Pk \X Pk

DirInit ==
  /\ callsign = [p \in Pk |-> NoName]
  /\ req = [r \in Pk \X Pk |-> "none"]
  /\ left = [r \in Pk \X Pk |-> 0]
  /\ contacts = {}
  /\ blocks = {}

-----------------------------------------------------------------------------
Known(p) == callsign[p] # NoName
Contact(a, b) == {a, b} \in contacts
Pending(from, to) == req[<<from, to>>] = "pending"
Open(from, to) == Pending(from, to) /\ left[<<from, to>>] > 0

(* What identity_me shows of the requests: those that are open.            *)
PendingIn(me) == {p \in Pk : Open(p, me)}
PendingOut(me) == {p \in Pk : Open(me, p)}

(* The rows rs leave the pending state for s.                              *)
Resolve(rs, s) ==
  /\ req' = [r \in Pk \X Pk |-> IF r \in rs THEN s ELSE req[r]]
  /\ left' = [r \in Pk \X Pk |-> IF r \in rs THEN 0 ELSE left[r]]

-----------------------------------------------------------------------------
Free(c) == \A p \in Pk : callsign[p] # c

RegisterIdentity(pk, c) ==
  /\ ~Known(pk) /\ Free(c)
  /\ callsign' = [callsign EXCEPT ![pk] = c]
  /\ UNCHANGED <<req, left, contacts, blocks>>

PatchCallsign(pk, c) ==
  /\ Known(pk) /\ Free(c)
  /\ callsign' = [callsign EXCEPT ![pk] = c]
  /\ UNCHANGED <<req, left, contacts, blocks>>

(* A row that is not open is replaced, whatever became of it.              *)
(* (Mutant: one more than the limit.)                                      *)
SendRequestFull(from, to) ==
  /\ Known(from) /\ Known(to) /\ from # to
  /\ <<to, from>> \notin blocks /\ <<from, to>> \notin blocks
  /\ ~Contact(from, to)
  /\ ~Open(from, to)
  /\ Cardinality(PendingOut(from)) <= MaxOutstanding
  /\ req' = [req EXCEPT ![<<from, to>>] = "pending"]
  /\ left' = [left EXCEPT ![<<from, to>>] = RequestTtl]
  /\ UNCHANGED <<callsign, contacts, blocks>>
SendRequest(from, to) ==
  /\ Known(from) /\ Known(to) /\ from # to
  /\ <<to, from>> \notin blocks /\ <<from, to>> \notin blocks
  /\ ~Contact(from, to)
  /\ ~Open(from, to)
  /\ Cardinality(PendingOut(from)) < MaxOutstanding
  /\ req' = [req EXCEPT ![<<from, to>>] = "pending"]
  /\ left' = [left EXCEPT ![<<from, to>>] = RequestTtl]
  /\ UNCHANGED <<callsign, contacts, blocks>>

(* _incoming: an expired row is refused (marking it is rolled back).       *)
(* (Mutant: its expiry is not looked at.)                                  *)
IncomingLate(me, from) == Pending(from, me)
Incoming(me, from) == Open(from, me)

(* Mutant: the request of the other side stays open.                       *)
AcceptOneSided(me, from) ==
  /\ Incoming(me, from)
  /\ contacts' = contacts \cup {{me, from}}
  /\ Resolve({<<from, me>>}, "accepted")
  /\ UNCHANGED <<callsign, blocks>>
AcceptRequest(me, from) ==
  /\ Incoming(me, from)
  /\ contacts' = contacts \cup {{me, from}}
  /\ Resolve({<<from, me>>} \cup (IF Pending(me, from) THEN {<<me, from>>} ELSE {}), "accepted")
  /\ UNCHANGED <<callsign, blocks>>

DeclineRequest(me, from) ==
  /\ Incoming(me, from)
  /\ Resolve({<<from, me>>}, "declined")
  /\ UNCHANGED <<callsign, contacts, blocks>>

(* Needs no request to be there; answers the one of the blocked side only. *)
(* (Mutant: the request is left as it is.)                                 *)
BlockOnly(me, from) ==
  /\ blocks' = blocks \cup {<<me, from>>}
  /\ contacts' = contacts \ {{me, from}}
  /\ UNCHANGED <<callsign, req, left>>
BlockRequest(me, from) ==
  /\ IF Pending(from, me)
       THEN Resolve({<<from, me>>}, IF Open(from, me) THEN "declined" ELSE "expired")
       ELSE UNCHANGED <<req, left>>
  /\ blocks' = blocks \cup {<<me, from>>}
  /\ contacts' = contacts \ {{me, from}}
  /\ UNCHANGED callsign

RemoveContact(me, other) ==
  /\ me # other /\ Contact(me, other)
  /\ contacts' = contacts \ {{me, other}}
  /\ UNCHANGED <<callsign, req, left, blocks>>

(* A tick of the clock.                                                    *)
Age ==
  /\ left' = [r \in Pk \X Pk |-> IF left[r] > 0 THEN left[r] - 1 ELSE 0]
  /\ UNCHANGED <<callsign, req, contacts, blocks>>

(* The routes.                                                             *)
Identities == \E pk \in Pk : \E c \in Wishes[pk] : RegisterIdentity(pk, c) \/ PatchCallsign(pk, c)
Requests == \E r \in Asks : SendRequest(r[1], r[2]) \/ AcceptRequest(r[2], r[1]) \/ DeclineRequest(r[2], r[1])
Partings == \E r \in Asks : BlockRequest(r[2], r[1]) \/ BlockRequest(r[1], r[2]) \/ RemoveContact(r[1], r[2])

DirNext == Identities \/ Requests \/ Partings \/ Age

DirSpec == DirInit /\ [][DirNext]_dirVars

-----------------------------------------------------------------------------
(* Accepting a request ends the one of the other side too, expired or not, *)
(* and blocking ends the request of the blocked side: nobody's inbox shows *)
(* a contact or somebody they have blocked (V2-FR-011, V2-FR-012), and no  *)
(* request stays behind that a later expiry rule could revive.             *)
SettledPairs == \A a, b \in Pk : Contact(a, b) => ~Pending(a, b)
BlockSilences == \A a, b \in Pk : <<a, b>> \in blocks => ~Pending(b, a) /\ b \notin PendingIn(a)

(* However requests lapse and are replaced, an identity has no more of     *)
(* them open than the limit, and none of them to itself (V2-FR-012).       *)
OutstandingCapped == \A p \in Pk : Cardinality(PendingOut(p)) <= MaxOutstanding /\ ~Open(p, p)

(* The tables implement the contact book: every link comes from an open    *)
(* ask that was accepted, and accepting leaves neither ask open.           *)
Book == INSTANCE ContactBook
          WITH asked  <- {r \in Pk \X Pk : req[r] = "pending" /\ left[r] > 0},
               linked <- contacts
ImplementsBook == Book!Spec
=============================================================================
