-------------------------- MODULE DirectoryProofs --------------------------
(***************************************************************************)
(* Proofs about Directory, for every set of keys and every limit: what     *)
(* blocking and accepting leave of the requests, how many of them an       *)
(* identity has open, and that the tables implement the contact book.      *)
(***************************************************************************)
EXTENDS Directory, FiniteSetTheorems, TLAPS

(* Finite as well as capped: Pk need not be finite.                        *)
FewOutstanding ==
  \A p \in Pk :
    /\ IsFiniteSet(PendingOut(p)) /\ Cardinality(PendingOut(p)) <= MaxOutstanding
    /\ ~Pending(p, p)

DirInv == DirTypeOK /\ SettledPairs /\ BlockSilences /\ FewOutstanding

LEMMA AsksType ==
  ASSUME NEW r \in Asks
  PROVE  r[1] \in Pk /\ r[2] \in Pk
  BY DirectoryAssumption

-----------------------------------------------------------------------------
(* Open requests only ever leave, unless one is sent.                      *)
Settled == \A a, b \in Pk : Open(a, b)' => Open(a, b)

LEMMA ResolveOpens ==
  ASSUME DirTypeOK, NEW rs \in SUBSET (Pk \X Pk), NEW s \in RequestState, s # "pending", Resolve(rs, s)
  PROVE  /\ req' \in [Pk \X Pk -> RequestState]
         /\ left' \in [Pk \X Pk -> 0..RequestTtl]
         /\ \A a, b \in Pk : /\ Pending(a, b)' <=> Pending(a, b) /\ <<a, b>> \notin rs
                             /\ Open(a, b)' <=> Open(a, b) /\ <<a, b>> \notin rs
<1>1. 0 \in 0..RequestTtl BY DirectoryAssumption
<1>2. req' \in [Pk \X Pk -> RequestState] /\ left' \in [Pk \X Pk -> 0..RequestTtl]
  BY <1>1 DEF Resolve, DirTypeOK
<1>3. \A a, b \in Pk : /\ Pending(a, b)' <=> Pending(a, b) /\ <<a, b>> \notin rs
                       /\ Open(a, b)' <=> Open(a, b) /\ <<a, b>> \notin rs
  BY DEF Resolve, Pending, Open, DirTypeOK
<1> QED BY <1>2, <1>3

(* What is open is finite and capped when it has not grown.                *)
LEMMA FewerOpen ==
  ASSUME FewOutstanding, Settled, \A p \in Pk : ~Pending(p, p)'
  PROVE  FewOutstanding'
<1> SUFFICES ASSUME NEW p \in Pk
             PROVE  IsFiniteSet(PendingOut(p)') /\ Cardinality(PendingOut(p)') <= MaxOutstanding
  BY DEF FewOutstanding
<1>1. PendingOut(p)' \subseteq PendingOut(p)
  BY DEF PendingOut, Settled
<1>2. IsFiniteSet(PendingOut(p)) /\ Cardinality(PendingOut(p)) <= MaxOutstanding
  BY DEF FewOutstanding
<1>3. IsFiniteSet(PendingOut(p)') /\ Cardinality(PendingOut(p)') <= Cardinality(PendingOut(p))
  BY <1>1, <1>2, FS_Subset
<1>4. Cardinality(PendingOut(p)) \in Nat /\ Cardinality(PendingOut(p)') \in Nat
  BY <1>2, <1>3, FS_CardinalityType
<1> QED BY <1>2, <1>3, <1>4, DirectoryAssumption

-----------------------------------------------------------------------------
(* Each route keeps the invariant.                                         *)

LEMMA InitInv == DirInit => DirInv
<1> SUFFICES ASSUME DirInit PROVE DirInv OBVIOUS
<1> USE DEF DirInit
<1>1. DirTypeOK BY DirectoryAssumption DEF DirTypeOK, RequestState
<1>2. \A p, q \in Pk : ~Pending(p, q) BY DEF Pending
<1>3. SettledPairs BY DEF SettledPairs, Contact
<1>4. BlockSilences BY DEF BlockSilences
<1>5. ASSUME NEW p \in Pk PROVE PendingOut(p) = {} BY <1>2 DEF PendingOut, Open
<1>6. FewOutstanding BY <1>2, <1>5, FS_EmptySet, DirectoryAssumption DEF FewOutstanding
<1> QED BY <1>1, <1>3, <1>4, <1>6 DEF DirInv

LEMMA Quiet ==
  ASSUME DirInv, DirTypeOK', UNCHANGED <<req, left, contacts, blocks>>
  PROVE  DirInv'
<1> USE DEF DirInv
<1>1. \A a, b \in Pk : (Pending(a, b)' <=> Pending(a, b)) /\ (Open(a, b)' <=> Open(a, b))
  BY DEF Pending, Open
<1>2. SettledPairs' /\ BlockSilences'
  BY <1>1 DEF SettledPairs, BlockSilences, Contact, PendingIn
<1>3. FewOutstanding' BY <1>1, FewerOpen DEF Settled, FewOutstanding
<1> QED BY <1>2, <1>3

LEMMA SendInv ==
  ASSUME DirInv, NEW from \in Pk, NEW to \in Pk, SendRequest(from, to)
  PROVE  DirInv'
<1> USE DEF DirInv, SendRequest
<1>1. DirTypeOK' BY DirectoryAssumption DEF DirTypeOK, RequestState
<1>2. \A a, b \in Pk : Pending(a, b)' <=> Pending(a, b) \/ (a = from /\ b = to)
  BY DEF DirTypeOK, Pending
<1>3. \A a, b \in Pk : Open(a, b)' => Open(a, b) \/ (a = from /\ b = to)
  BY DEF DirTypeOK, Pending, Open
<1>4. SettledPairs' BY <1>2 DEF SettledPairs, Contact
<1>5. BlockSilences'
  <2>1. \A a, b \in Pk : <<a, b>> \in blocks => ~Pending(b, a)'
    BY <1>2 DEF BlockSilences
  <2> QED BY <2>1 DEF BlockSilences, PendingIn, Open
<1>6. ASSUME NEW p \in Pk
      PROVE  IsFiniteSet(PendingOut(p)') /\ Cardinality(PendingOut(p)') <= MaxOutstanding
  <2>1. IsFiniteSet(PendingOut(p)) /\ Cardinality(PendingOut(p)) <= MaxOutstanding
    BY DEF FewOutstanding
  <2>2. Cardinality(PendingOut(p)) \in Nat BY <2>1, FS_CardinalityType
  <2>3. CASE p = from
    <3>1. PendingOut(p)' \subseteq PendingOut(p) \cup {to} BY <1>3, <2>3 DEF PendingOut
    <3>2. /\ IsFiniteSet(PendingOut(p) \cup {to})
          /\ Cardinality(PendingOut(p) \cup {to}) <= Cardinality(PendingOut(p)) + 1
      BY <2>1, <2>2, FS_AddElement
    <3>3. /\ IsFiniteSet(PendingOut(p)')
          /\ Cardinality(PendingOut(p)') <= Cardinality(PendingOut(p) \cup {to})
      BY <3>1, <3>2, FS_Subset
    <3>4. Cardinality(PendingOut(p)') \in Nat /\ Cardinality(PendingOut(p) \cup {to}) \in Nat
      BY <3>2, <3>3, FS_CardinalityType
    <3> QED BY <2>2, <2>3, <3>2, <3>3, <3>4, DirectoryAssumption
  <2>4. CASE p # from
    <3>1. PendingOut(p)' \subseteq PendingOut(p) BY <1>3, <2>4 DEF PendingOut
    <3>2. IsFiniteSet(PendingOut(p)') /\ Cardinality(PendingOut(p)') <= Cardinality(PendingOut(p))
      BY <2>1, <3>1, FS_Subset
    <3>3. Cardinality(PendingOut(p)') \in Nat BY <3>2, FS_CardinalityType
    <3> QED BY <2>1, <2>2, <3>2, <3>3, DirectoryAssumption
  <2> QED BY <2>3, <2>4
<1>7. FewOutstanding' BY <1>2, <1>6 DEF FewOutstanding
<1> QED BY <1>1, <1>4, <1>5, <1>7

LEMMA AcceptInv ==
  ASSUME DirInv, NEW me \in Pk, NEW from \in Pk, AcceptRequest(me, from)
  PROVE  DirInv'
<1> USE DEF DirInv
<1> DEFINE rs == {<<from, me>>} \cup (IF Pending(me, from) THEN {<<me, from>>} ELSE {})
<1>1. rs \in SUBSET (Pk \X Pk) OBVIOUS
<1>2. Resolve(rs, "accepted") /\ contacts' = contacts \cup {{me, from}} /\ UNCHANGED <<callsign, blocks>>
  BY DEF AcceptRequest
<1>3. "accepted" \in RequestState BY DEF RequestState
<1> HIDE DEF rs
<1>4. /\ req' \in [Pk \X Pk -> RequestState]
      /\ left' \in [Pk \X Pk -> 0..RequestTtl]
      /\ \A a, b \in Pk : /\ Pending(a, b)' <=> Pending(a, b) /\ <<a, b>> \notin rs
                          /\ Open(a, b)' <=> Open(a, b) /\ <<a, b>> \notin rs
  BY <1>1, <1>2, <1>3, ResolveOpens
<1>5. DirTypeOK' BY <1>2, <1>4 DEF DirTypeOK, Pair
<1>6. ~Pending(me, from)' /\ ~Pending(from, me)' BY <1>4 DEF rs
<1>7. SettledPairs'
  <2> SUFFICES ASSUME NEW a \in Pk, NEW b \in Pk, {a, b} \in contacts'
               PROVE  ~Pending(a, b)'
    BY DEF SettledPairs, Contact
  <2>1. CASE {a, b} \in contacts BY <2>1, <1>4 DEF SettledPairs, Contact
  <2>2. CASE {a, b} = {me, from}
    <3>1. (a = me /\ b = from) \/ (a = from /\ b = me) BY <2>2
    <3> QED BY <3>1, <1>6
  <2> QED BY <1>2, <2>1, <2>2
<1>8. BlockSilences' BY <1>2, <1>4 DEF BlockSilences, PendingIn
<1>9. FewOutstanding' BY <1>4, FewerOpen DEF Settled, FewOutstanding
<1> QED BY <1>5, <1>7, <1>8, <1>9

LEMMA DeclineInv ==
  ASSUME DirInv, NEW me \in Pk, NEW from \in Pk, DeclineRequest(me, from)
  PROVE  DirInv'
<1> USE DEF DirInv
<1>1. Resolve({<<from, me>>}, "declined") /\ UNCHANGED <<callsign, contacts, blocks>>
  BY DEF DeclineRequest
<1>2. "declined" \in RequestState /\ {<<from, me>>} \in SUBSET (Pk \X Pk) BY DEF RequestState
<1>3. /\ req' \in [Pk \X Pk -> RequestState]
      /\ left' \in [Pk \X Pk -> 0..RequestTtl]
      /\ \A a, b \in Pk : /\ Pending(a, b)' => Pending(a, b)
                          /\ Open(a, b)' => Open(a, b)
  BY <1>1, <1>2, ResolveOpens
<1>4. DirTypeOK' BY <1>1, <1>3 DEF DirTypeOK
<1>5. SettledPairs' /\ BlockSilences' BY <1>1, <1>3 DEF SettledPairs, BlockSilences, Contact, PendingIn
<1>6. FewOutstanding' BY <1>3, FewerOpen DEF Settled, FewOutstanding
<1> QED BY <1>4, <1>5, <1>6

LEMMA BlockInv ==
  ASSUME DirInv, NEW me \in Pk, NEW from \in Pk, BlockRequest(me, from)
  PROVE  DirInv'
<1> USE DEF DirInv
<1>1. /\ blocks' = blocks \cup {<<me, from>>}
      /\ contacts' = contacts \ {{me, from}}
      /\ UNCHANGED callsign
  BY DEF BlockRequest
<1>2. /\ req' \in [Pk \X Pk -> RequestState]
      /\ left' \in [Pk \X Pk -> 0..RequestTtl]
      /\ \A a, b \in Pk : /\ Pending(a, b)' => Pending(a, b)
                          /\ Open(a, b)' => Open(a, b)
      /\ ~Pending(from, me)'
  <2>1. CASE Pending(from, me)
    <3> DEFINE s == IF Open(from, me) THEN "declined" ELSE "expired"
    <3>1. s \in RequestState /\ s # "pending" /\ {<<from, me>>} \in SUBSET (Pk \X Pk) BY DEF RequestState
    <3>2. Resolve({<<from, me>>}, s) BY <2>1 DEF BlockRequest
    <3> HIDE DEF s
    <3> QED BY <3>1, <3>2, ResolveOpens
  <2>2. CASE ~Pending(from, me)
    <3>1. UNCHANGED <<req, left>> BY <2>2 DEF BlockRequest
    <3> QED BY <2>2, <3>1 DEF DirTypeOK, Pending, Open
  <2> QED BY <2>1, <2>2
<1>3. DirTypeOK' BY <1>1, <1>2 DEF DirTypeOK
<1>4. SettledPairs' BY <1>1, <1>2 DEF SettledPairs, Contact
<1>5. BlockSilences'
  <2>1. \A a, b \in Pk : <<a, b>> \in blocks' => ~Pending(b, a)'
    BY <1>1, <1>2 DEF BlockSilences
  <2> QED BY <2>1 DEF BlockSilences, PendingIn, Open
<1>6. FewOutstanding' BY <1>2, FewerOpen DEF Settled, FewOutstanding
<1> QED BY <1>3, <1>4, <1>5, <1>6

LEMMA RemoveInv ==
  ASSUME DirInv, NEW me \in Pk, NEW other \in Pk, RemoveContact(me, other)
  PROVE  DirInv'
<1> USE DEF DirInv, RemoveContact
<1>1. DirTypeOK' BY DEF DirTypeOK
<1>2. \A a, b \in Pk : (Pending(a, b)' <=> Pending(a, b)) /\ (Open(a, b)' <=> Open(a, b))
  BY DEF Pending, Open
<1>3. SettledPairs' /\ BlockSilences' BY <1>2 DEF SettledPairs, BlockSilences, Contact, PendingIn
<1>4. FewOutstanding' BY <1>2, FewerOpen DEF Settled, FewOutstanding
<1> QED BY <1>1, <1>3, <1>4

LEMMA AgeInv ==
  ASSUME DirInv, Age
  PROVE  DirInv'
<1> USE DEF DirInv, Age
<1>1. DirTypeOK'
  <2>1. left' \in [Pk \X Pk -> 0..RequestTtl] BY DirectoryAssumption DEF DirTypeOK
  <2> QED BY <2>1 DEF DirTypeOK
<1>2. \A a, b \in Pk : (Pending(a, b)' <=> Pending(a, b)) /\ (Open(a, b)' => Open(a, b))
  <2> SUFFICES ASSUME NEW a \in Pk, NEW b \in Pk
               PROVE  (Pending(a, b)' <=> Pending(a, b)) /\ (Open(a, b)' => Open(a, b))
    OBVIOUS
  <2>1. <<a, b>> \in Pk \X Pk /\ left[<<a, b>>] \in Nat BY DirectoryAssumption DEF DirTypeOK
  <2>2. left'[<<a, b>>] = IF left[<<a, b>>] > 0 THEN left[<<a, b>>] - 1 ELSE 0 BY <2>1
  <2>3. req'[<<a, b>>] = req[<<a, b>>] OBVIOUS
  <2> QED BY <2>1, <2>2, <2>3 DEF Pending, Open
<1>3. SettledPairs' /\ BlockSilences' BY <1>2 DEF SettledPairs, BlockSilences, Contact, PendingIn
<1>4. FewOutstanding' BY <1>2, FewerOpen DEF Settled, FewOutstanding
<1> QED BY <1>1, <1>3, <1>4

LEMMA NextInv == DirInv /\ [DirNext]_dirVars => DirInv'
<1> SUFFICES ASSUME DirInv, [DirNext]_dirVars PROVE DirInv' OBVIOUS
<1>1. CASE Identities
  <2>1. PICK pk \in Pk, c \in Callsign : RegisterIdentity(pk, c) \/ PatchCallsign(pk, c)
    BY <1>1, DirectoryAssumption DEF Identities
  <2>2. UNCHANGED <<req, left, contacts, blocks>> /\ callsign' = [callsign EXCEPT ![pk] = c]
    BY <2>1 DEF RegisterIdentity, PatchCallsign
  <2>3. DirTypeOK' BY <2>2 DEF DirInv, DirTypeOK
  <2> QED BY <2>2, <2>3, Quiet
<1>2. CASE Requests BY <1>2, AsksType, SendInv, AcceptInv, DeclineInv DEF Requests
<1>3. CASE Partings BY <1>3, AsksType, BlockInv, RemoveInv DEF Partings
<1>4. CASE Age BY <1>4, AgeInv
<1>5. CASE UNCHANGED dirVars
  <2>1. UNCHANGED <<req, left, contacts, blocks>> /\ DirTypeOK' BY <1>5 DEF dirVars, DirInv, DirTypeOK
  <2> QED BY <2>1, Quiet
<1> QED BY <1>1, <1>2, <1>3, <1>4, <1>5 DEF DirNext

-----------------------------------------------------------------------------
(* The tables keep their types, which the statements below rest on.        *)
THEOREM DirInvariant == DirSpec => []DirInv
  BY InitInv, NextInv, PTL DEF DirSpec

(* Accepting a request settles both directions between two contacts, for   *)
(* any number of identities (accept_request, V2-FR-011).                   *)
THEOREM AcceptSettlesBoth == DirSpec => []SettledPairs
  BY DirInvariant, PTL DEF DirInv

(* No request of somebody blocked is pending, however block, expiry and    *)
(* request follow each other (block_request, V2-FR-012).                   *)
THEOREM BlockHolds == DirSpec => []BlockSilences
  BY DirInvariant, PTL DEF DirInv

(* An identity has at most MaxOutstanding requests open and none to        *)
(* itself, whatever the limit is (send_request).                           *)
THEOREM RequestsAreCapped == DirSpec => []OutstandingCapped
<1>1. DirInv => OutstandingCapped BY DEF DirInv, FewOutstanding, OutstandingCapped, Open
<1> QED BY <1>1, DirInvariant, PTL

-----------------------------------------------------------------------------
(* Every route is a step of the contact book or none at all.               *)
OpenAsks == {r \in Pk \X Pk : req[r] = "pending" /\ left[r] > 0}

LEMMA AsksAreOpen ==
  /\ \A a, b \in Pk : <<a, b>> \in OpenAsks <=> Open(a, b)
  /\ \A a, b \in Pk : <<a, b>> \in OpenAsks' <=> Open(a, b)'
  /\ OpenAsks \subseteq Pk \X Pk /\ OpenAsks' \subseteq Pk \X Pk
  BY DEF OpenAsks, Open, Pending

(* Nothing is asked and no link is made: Drop.                             *)
LEMMA OnlyDrops ==
  ASSUME Settled, contacts' \subseteq contacts
  PROVE  Book!Drop
<1>1. OpenAsks' \subseteq OpenAsks
  <2> SUFFICES ASSUME NEW r \in OpenAsks' PROVE r \in OpenAsks OBVIOUS
  <2>1. PICK a \in Pk, b \in Pk : r = <<a, b>> BY AsksAreOpen
  <2> QED BY <2>1, AsksAreOpen DEF Settled
<1> QED BY <1>1 DEF Book!Drop, OpenAsks

LEMMA SendAsks ==
  ASSUME DirTypeOK, NEW from \in Pk, NEW to \in Pk, SendRequest(from, to)
  PROVE  Book!Ask(from, to)
<1> USE DEF SendRequest
<1>1. \A a, b \in Pk : Open(a, b)' <=> Open(a, b) \/ (a = from /\ b = to)
  BY DirectoryAssumption DEF DirTypeOK, Pending, Open
<1>2. OpenAsks' = OpenAsks \cup {<<from, to>>}
  <2>1. ASSUME NEW r \in OpenAsks' PROVE r \in OpenAsks \cup {<<from, to>>}
    <3>1. PICK a \in Pk, b \in Pk : r = <<a, b>> BY AsksAreOpen
    <3> QED BY <1>1, <3>1, AsksAreOpen
  <2>2. ASSUME NEW r \in OpenAsks \cup {<<from, to>>} PROVE r \in OpenAsks'
    <3>1. PICK a \in Pk, b \in Pk : r = <<a, b>> BY AsksAreOpen
    <3> QED BY <1>1, <3>1, AsksAreOpen
  <2> QED BY <2>1, <2>2
<1>3. from # to /\ {from, to} \notin contacts BY DEF Contact
<1>4. UNCHANGED contacts OBVIOUS
<1> QED BY <1>2, <1>3, <1>4 DEF Book!Ask, OpenAsks

LEMMA AcceptLinks ==
  ASSUME DirTypeOK, NEW me \in Pk, NEW from \in Pk, AcceptRequest(me, from)
  PROVE  Book!Accept(me, from)
<1> DEFINE rs == {<<from, me>>} \cup (IF Pending(me, from) THEN {<<me, from>>} ELSE {})
<1>1. rs \in SUBSET (Pk \X Pk) OBVIOUS
<1>2. Resolve(rs, "accepted") /\ contacts' = contacts \cup {{me, from}} /\ Open(from, me)
  BY DEF AcceptRequest, Incoming
<1>3. "accepted" \in RequestState BY DEF RequestState
<1> HIDE DEF rs
<1>4. \A a, b \in Pk : Open(a, b)' <=> Open(a, b) /\ <<a, b>> \notin rs
  BY <1>1, <1>2, <1>3, ResolveOpens
<1>5. \A a, b \in Pk : Open(a, b)' <=> Open(a, b) /\ <<a, b>> \notin {<<from, me>>, <<me, from>>}
  BY <1>4 DEF rs, Open
<1>6. OpenAsks' = OpenAsks \ {<<from, me>>, <<me, from>>}
  <2>1. ASSUME NEW r \in OpenAsks' PROVE r \in OpenAsks \ {<<from, me>>, <<me, from>>}
    <3>1. PICK a \in Pk, b \in Pk : r = <<a, b>> BY AsksAreOpen
    <3> QED BY <1>5, <3>1, AsksAreOpen
  <2>2. ASSUME NEW r \in OpenAsks \ {<<from, me>>, <<me, from>>} PROVE r \in OpenAsks'
    <3>1. PICK a \in Pk, b \in Pk : r = <<a, b>> BY AsksAreOpen
    <3> QED BY <1>5, <3>1, AsksAreOpen
  <2> QED BY <2>1, <2>2
<1>7. <<from, me>> \in OpenAsks BY <1>2, AsksAreOpen
<1> QED BY <1>2, <1>6, <1>7 DEF Book!Accept, OpenAsks

LEMMA ResolveDrops ==
  ASSUME DirTypeOK, NEW rs \in SUBSET (Pk \X Pk), NEW s \in RequestState, s # "pending", Resolve(rs, s),
         contacts' \subseteq contacts
  PROVE  Book!Drop
  BY ResolveOpens, OnlyDrops DEF Settled

LEMMA BookStep == DirTypeOK /\ [DirNext]_dirVars => [Book!Next]_Book!book
<1> SUFFICES ASSUME DirTypeOK, [DirNext]_dirVars PROVE [Book!Next]_Book!book OBVIOUS
<1>1. ASSUME UNCHANGED <<req, left, contacts>> PROVE UNCHANGED Book!book
  BY <1>1 DEF Book!book
<1>2. CASE Identities
  BY <1>1, <1>2 DEF Identities, RegisterIdentity, PatchCallsign
<1>3. CASE Requests
  <2>1. PICK r \in Asks : SendRequest(r[1], r[2]) \/ AcceptRequest(r[2], r[1]) \/ DeclineRequest(r[2], r[1])
    BY <1>3 DEF Requests
  <2>2. r[1] \in Pk /\ r[2] \in Pk BY AsksType
  <2>3. CASE SendRequest(r[1], r[2]) BY <2>2, <2>3, SendAsks DEF Book!Next
  <2>4. CASE AcceptRequest(r[2], r[1]) BY <2>2, <2>4, AcceptLinks DEF Book!Next
  <2>5. CASE DeclineRequest(r[2], r[1])
    <3>1. {<<r[1], r[2]>>} \in SUBSET (Pk \X Pk) /\ "declined" \in RequestState BY <2>2 DEF RequestState
    <3>2. Resolve({<<r[1], r[2]>>}, "declined") /\ contacts' \subseteq contacts BY <2>5 DEF DeclineRequest
    <3> QED BY <3>1, <3>2, ResolveDrops DEF Book!Next
  <2> QED BY <2>1, <2>3, <2>4, <2>5
<1>4. CASE Partings
  <2>1. ASSUME NEW me \in Pk, NEW from \in Pk, BlockRequest(me, from) PROVE Book!Drop
    <3>1. contacts' \subseteq contacts BY <2>1 DEF BlockRequest
    <3>2. CASE Pending(from, me)
      <4> DEFINE s == IF Open(from, me) THEN "declined" ELSE "expired"
      <4>1. s \in RequestState /\ s # "pending" /\ {<<from, me>>} \in SUBSET (Pk \X Pk) BY DEF RequestState
      <4>2. Resolve({<<from, me>>}, s) BY <2>1, <3>2 DEF BlockRequest
      <4> HIDE DEF s
      <4> QED BY <3>1, <4>1, <4>2, ResolveDrops
    <3>3. CASE ~Pending(from, me)
      <4>1. UNCHANGED <<req, left>> BY <2>1, <3>3 DEF BlockRequest
      <4> QED BY <3>1, <4>1, OnlyDrops DEF Settled, Open, Pending
    <3> QED BY <3>2, <3>3
  <2>2. ASSUME NEW me \in Pk, NEW other \in Pk, RemoveContact(me, other) PROVE Book!Drop
    BY <2>2, OnlyDrops DEF RemoveContact, Settled, Open, Pending
  <2> QED BY <1>4, <2>1, <2>2, AsksType DEF Partings, Book!Next
<1>5. CASE Age
  <2>1. Settled
    <3> SUFFICES ASSUME NEW a \in Pk, NEW b \in Pk, Open(a, b)' PROVE Open(a, b) BY DEF Settled
    <3>1. <<a, b>> \in Pk \X Pk /\ left[<<a, b>>] \in Nat BY DirectoryAssumption DEF DirTypeOK
    <3>2. left'[<<a, b>>] = IF left[<<a, b>>] > 0 THEN left[<<a, b>>] - 1 ELSE 0 BY <1>5, <3>1 DEF Age
    <3>3. req'[<<a, b>>] = req[<<a, b>>] BY <1>5 DEF Age
    <3> QED BY <3>1, <3>2, <3>3 DEF Open, Pending
  <2> QED BY <1>5, <2>1, OnlyDrops DEF Age, Book!Next
<1>6. CASE UNCHANGED dirVars BY <1>1, <1>6 DEF dirVars
<1> QED BY <1>2, <1>3, <1>4, <1>5, <1>6 DEF DirNext

(* Every link between two contacts comes from a request that was open when *)
(* it was accepted: the tables implement the contact book.                 *)
THEOREM TablesImplementBook == DirSpec => ImplementsBook
<1>1. DirInit => Book!Init BY DEF DirInit, Book!Init
<1> QED BY <1>1, BookStep, DirInvariant, PTL DEF DirSpec, DirInv, ImplementsBook, Book!Spec
=============================================================================
