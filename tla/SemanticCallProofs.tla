------------------------- MODULE SemanticCallProofs -------------------------
(***************************************************************************)
(* Proofs about SemanticRevision, for any number of memories and callers   *)
(* and for any bounds on errors and crashes: the steps of the calls        *)
(* preserve ChainInv, and what the steps of a recovery have in common.     *)
(***************************************************************************)
EXTENDS SemanticRevision, FiniteSetTheorems, WellFoundedInduction, TLAPS

(* The default prover; a leaf with arithmetic, or with much instantiation,   *)
(* names SMT.                                                               *)
USE Zenon

-----------------------------------------------------------------------------
(* The operators the model is built from. *)

(* Numbers up to n have a highest.                                          *)
LEMMA HighestNumber ==
    ASSUME NEW n \in Nat, NEW T, T \subseteq 0 .. n, T # {}
    PROVE  \E x \in T : \A y \in T : y <= x
<1> DEFINE R == OpToRel(<, Nat)
           D == {n - y : y \in T}
<1>1. IsWellFoundedOn(R, Nat)
    BY NatLessThanWellFounded
<1>2. \A x, y \in Nat : y < x => <<y, x>> \in R
    BY DEF OpToRel
<1> HIDE DEF R
<1>3. \A y \in T : n - y \in Nat /\ y \in Nat
    BY SMT
<1>4. D \subseteq Nat /\ D # {}
    BY <1>3
<1>5. PICK d \in D : \A e \in D : ~(<<e, d>> \in R)
    BY <1>1, <1>4, WFMin
<1>6. PICK x \in T : d = n - x
    BY <1>5
<1>7. \A y \in T : ~(n - y < n - x)
    BY <1>2, <1>3, <1>5, <1>6
<1>8. \A y \in T : y <= x
    BY SMT, <1>3, <1>7
<1> QED BY <1>8

(* What is known of a revision.                                             *)
LEMMA RevisionType ==
    ASSUME NEW r \in Revision
    PROVE  /\ r.logical \in Memories /\ r.id \in 1 .. given /\ r.version \in 1 .. given
           /\ r.op \in {"Create", "Correct", "Supersede", "Merge", "Retract"}
           /\ r.from \in Times /\ r.until \in Times \cup {None}
           /\ r.merged_into \in Memories \cup {None}
BY DEF Revision

(* Some revisions have a head, and it is one of them.                       *)
LEMMA HeadFacts ==
    ASSUME given \in Nat, NEW S, S \subseteq Revision, S # {}
    PROVE  /\ HeadOf(S) \in S
           /\ \A s \in S : ~semantic_revision_is_newer(s, HeadOf(S))
<1> DEFINE V == {r.version : r \in S}
<1>1. \A r \in S : r.version \in 0 .. given /\ r.id \in 0 .. given
    <2> SUFFICES ASSUME NEW r \in S PROVE r.version \in 0 .. given /\ r.id \in 0 .. given
        OBVIOUS
    <2>1. r.version \in 1 .. given /\ r.id \in 1 .. given
        BY RevisionType
    <2> QED BY SMT, <2>1
<1>2. PICK v \in V : \A y \in V : y <= v
    <2>1. V \subseteq 0 .. given /\ V # {}
        BY <1>1
    <2> QED BY <2>1, HighestNumber
<1> DEFINE T == {r \in S : r.version = v}
           I == {r.id : r \in T}
<1>3. PICK i \in I : \A y \in I : y <= i
    <2>1. I \subseteq 0 .. given /\ I # {}
        BY <1>1, <1>2
    <2> QED BY <2>1, HighestNumber
<1>4. PICK h \in T : h.id = i
    BY <1>3
<1>5. ASSUME NEW s \in S PROVE ~semantic_revision_is_newer(s, h)
    <2>1. s.version <= v /\ h.version = v /\ (s.version = v => s.id <= h.id)
        BY <1>2, <1>3, <1>4
    <2>2. s.version \in 0 .. given /\ h.version \in 0 .. given /\ s.id \in 0 .. given /\ h.id \in 0 .. given
        BY <1>1, <1>4
    <2> QED BY SMT, <2>1, <2>2 DEF semantic_revision_is_newer
<1>6. \E r \in S : \A s \in S : ~semantic_revision_is_newer(s, r)
    BY <1>4, <1>5
<1> QED BY <1>6 DEF HeadOf

(* The later of two times.                                                  *)
LEMMA LaterTime ==
    ASSUME NEW t \in Times, NEW u \in Times
    PROVE  Max({t, u}) \in Times /\ t <= Max({t, u}) /\ u <= Max({t, u})
<1>1. t \in Nat /\ u \in Nat
    BY TimesAssumption
<1>2. \E x \in {t, u} : \A y \in {t, u} : x >= y
    BY SMT, <1>1
<1>3. Max({t, u}) \in {t, u} /\ \A y \in {t, u} : Max({t, u}) >= y
    BY <1>2 DEF Max
<1>4. Max({t, u}) \in Nat
    BY <1>1, <1>3
<1>5. Max({t, u}) >= t /\ Max({t, u}) >= u
    BY <1>3
<1>6. t <= Max({t, u}) /\ u <= Max({t, u})
    BY SMT, <1>1, <1>4, <1>5
<1> QED BY <1>3, <1>6

(* Closing a revision ends its interval, not before its start.              *)
LEMMA ClosedFacts ==
    ASSUME NEW r \in Revision, NEW t \in Times
    PROVE  /\ Closed(r, t) \in Revision /\ SameFact(Closed(r, t), r)
           /\ Closed(r, t).until \in Times
           /\ r.from <= Closed(r, t).until /\ t <= Closed(r, t).until
<1>1. r.from \in Times
    BY DEF Revision
<1>2. Max({t, r.from}) \in Times /\ t <= Max({t, r.from}) /\ r.from <= Max({t, r.from})
    BY <1>1, LaterTime
<1>3. \A u \in Times : [r EXCEPT !.until = u] \in Revision
                       /\ SameFact([r EXCEPT !.until = u], r) /\ [r EXCEPT !.until = u].until = u
    BY SMT DEF Revision, SameFact
<1> QED BY <1>2, <1>3 DEF Closed

(* The elements of a finite set as a sequence.                              *)
LEMMA ListedType ==
    ASSUME NEW S, IsFiniteSet(S)
    PROVE  Listed(S) \in Seq(S)
<1>1. Cardinality(S) \in Nat /\ ExistsBijection(1 .. Cardinality(S), S)
    BY FS_CardinalityType
<1>2. PICK f \in [1 .. Cardinality(S) -> S] : IsInjective(f)
    BY <1>1 DEF ExistsBijection, Bijection, Injection
<1>3. Listed(S) \in [1 .. Cardinality(S) -> S]
    BY <1>2 DEF Listed
<1> QED BY SMT, <1>1, <1>3

(* What a sequence holds.                                                   *)
LEMMA RangeFacts ==
    ASSUME NEW S, NEW q \in Seq(S)
    PROVE  /\ Range(q) \subseteq S
           /\ \A x : x \in Range(q) <=> \E i \in 1 .. Len(q) : q[i] = x
<1>1. DOMAIN q = 1 .. Len(q) /\ \A i \in 1 .. Len(q) : q[i] \in S
    BY SMT
<1> QED BY <1>1 DEF Range

(* A cached head is the old one or one of the new revisions, of its chain.  *)
LEMMA CachedFacts ==
    ASSUME given \in Nat, NEW heads \in [Memories -> Revision \cup {None}], NEW rs, rs \subseteq Revision
    PROVE  /\ CachedAll(heads, rs) \in [Memories -> Revision \cup {None}]
           /\ \A m \in Memories :
                 \/ CachedAll(heads, rs)[m] = heads[m]
                 \/ CachedAll(heads, rs)[m] \in rs /\ CachedAll(heads, rs)[m].logical = m
           /\ \A r \in rs : /\ Cached(heads, r) \in [Memories -> Revision \cup {None}]
                            /\ \A m \in Memories :
                                  \/ Cached(heads, r)[m] = heads[m]
                                  \/ Cached(heads, r)[m] = r /\ r.logical = m
<1>1. ASSUME NEW r \in rs
      PROVE  /\ Cached(heads, r) \in [Memories -> Revision \cup {None}]
             /\ \A m \in Memories : \/ Cached(heads, r)[m] = heads[m]
                                    \/ Cached(heads, r)[m] = r /\ r.logical = m
    <2>1. r \in Revision /\ r.logical \in Memories
        BY RevisionType
    <2> QED BY <2>1 DEF Cached
<1>2. ASSUME NEW m \in Memories
      PROVE  \/ CachedAll(heads, rs)[m] = heads[m]
             \/ CachedAll(heads, rs)[m] \in rs /\ CachedAll(heads, rs)[m].logical = m
    <2> DEFINE new == {r \in rs : r.logical = m}
    <2>1. CASE new = {}
        BY <2>1 DEF CachedAll
    <2>2. CASE new # {}
        <3>1. HeadOf(new) \in new
            BY <2>2, HeadFacts
        <3>2. CachedAll(heads, rs)[m] = Cached(heads, HeadOf(new))[m]
            BY <2>2 DEF CachedAll
        <3> QED BY <1>1, <3>1, <3>2
    <2> QED BY <2>1, <2>2
<1>3. CachedAll(heads, rs) \in [Memories -> Revision \cup {None}]
    <2>1. CachedAll(heads, rs) = [m \in Memories |-> CachedAll(heads, rs)[m]]
        BY DEF CachedAll
    <2> QED BY <1>2, <2>1
<1> QED BY <1>1, <1>2, <1>3

-----------------------------------------------------------------------------
(* What every step keeps. *)

LEMMA CarriedOf ==
    ASSUME NEW x, NEW r
    PROVE  r \in UNION {Range(x[c].prior) \cup Range(x[c].next) : c \in Callers}
           <=> \E c \in Callers : r \in Range(x[c].prior) \/ r \in Range(x[c].next)
OBVIOUS

LEMMA CopyCases ==
    ASSUME NEW r
    PROVE  r \in Copies <=> \/ r \in rows
                            \/ \E m \in Memories : cache[m] # None /\ r = cache[m]
                            \/ \E c \in Callers : r \in Range(call[c].prior) \/ r \in Range(call[c].next)
                            \/ r \in redo.todo \/ r \in redo.held
<1>1. r \in CachedHeads <=> \E m \in Memories : cache[m] # None /\ r = cache[m]
    BY DEF CachedHeads
<1>2. r \in Carried <=> \E c \in Callers : r \in Range(call[c].prior) \/ r \in Range(call[c].next)
    BY ONLY CarriedOf, Zenon DEF Carried
<1>3. r \in Copies <=> r \in rows \/ r \in CachedHeads \/ r \in Carried \/ r \in redo.todo \/ r \in redo.held
    BY DEF Copies
<1> QED BY <1>1, <1>2, <1>3

LEMMA NextCopyCases ==
    ASSUME NEW r
    PROVE  r \in Copies' <=> \/ r \in rows'
                             \/ \E m \in Memories : cache'[m] # None /\ r = cache'[m]
                             \/ \E c \in Callers : r \in Range(call'[c].prior) \/ r \in Range(call'[c].next)
                             \/ r \in redo'.todo \/ r \in redo'.held
<1>1. r \in CachedHeads' <=> \E m \in Memories : cache'[m] # None /\ r = cache'[m]
    BY DEF CachedHeads
<1>2. r \in Carried' <=> \E c \in Callers : r \in Range(call'[c].prior) \/ r \in Range(call'[c].next)
    BY ONLY CarriedOf, Zenon DEF Carried
<1>3. r \in Copies' <=> r \in rows' \/ r \in CachedHeads' \/ r \in Carried' \/ r \in redo'.todo \/ r \in redo'.held
    BY DEF Copies
<1> QED BY <1>1, <1>2, <1>3

LEMMA CopiesFacts ==
    ASSUME Typed
    PROVE  /\ Copies \subseteq Revision
           /\ rows \subseteq Copies /\ redo.todo \cup redo.held \subseteq Copies
           /\ \A m \in Memories : cache[m] # None => cache[m] \in Copies
           /\ \A c \in Callers : Range(call[c].prior) \cup Range(call[c].next) \subseteq Copies
           /\ \A c \in Callers : /\ \A i \in 1 .. Len(call[c].prior) : call[c].prior[i] \in Copies
                                 /\ \A i \in 1 .. Len(call[c].next) : call[c].next[i] \in Copies
<1>1. \A c \in Callers : call[c].prior \in Seq(Revision) /\ call[c].next \in Seq(Revision)
    BY DEF Typed, Call
<1>2. rows \subseteq Revision /\ redo.todo \subseteq Revision /\ redo.held \subseteq Revision
      /\ \A m \in Memories : cache[m] \in Revision \cup {None}
    BY DEF Typed
<1>3. \A c \in Callers : Range(call[c].prior) \cup Range(call[c].next) \subseteq Revision
    BY <1>1, RangeFacts
<1>4. \A c \in Callers : /\ \A i \in 1 .. Len(call[c].prior) : call[c].prior[i] \in Range(call[c].prior)
                         /\ \A i \in 1 .. Len(call[c].next) : call[c].next[i] \in Range(call[c].next)
    BY <1>1, RangeFacts
<1>5. /\ rows \subseteq Copies /\ redo.todo \cup redo.held \subseteq Copies
      /\ \A m \in Memories : cache[m] # None => cache[m] \in Copies
      /\ \A c \in Callers : Range(call[c].prior) \cup Range(call[c].next) \subseteq Copies
    BY CopyCases
<1>6. Copies \subseteq Revision
    BY <1>2, <1>3, CopyCases
<1> QED BY <1>4, <1>5, <1>6

(* A copy after a step that adds no revision: of one that was there before. *)
Derived(r) ==
    /\ r \in Revision' /\ (r.until = None \/ r.from <= r.until)
    /\ \E s \in Copies : SameFact(r, s)

AllDerived ==
    /\ \A r \in rows' : Derived(r)
    /\ \A m \in Memories : cache'[m] # None => Derived(cache'[m])
    /\ \A c \in Callers : \A r \in Range(call'[c].prior) \cup Range(call'[c].next) : Derived(r)
    /\ \A r \in redo'.todo \cup redo'.held : Derived(r)

LEMMA OldCopies ==
    ASSUME ChainInv, given' = given, NEW r \in Copies
    PROVE  Derived(r)
<1>1. r \in Revision
    BY CopiesFacts DEF ChainInv
<1>2. r \in Revision'
    BY <1>1 DEF Revision
<1>3. SameFact(r, r)
    BY DEF SameFact
<1> QED BY <1>2, <1>3 DEF Derived, ChainInv, CopiesAgree

LEMMA ClosedCopies ==
    ASSUME ChainInv, given' = given, NEW r \in Copies, NEW t \in Times
    PROVE  Derived(Closed(r, t))
<1>1. r \in Revision
    BY CopiesFacts DEF ChainInv
<1> DEFINE d == Closed(r, t)
<1>2. d \in Revision /\ SameFact(d, r) /\ r.from <= d.until
    BY <1>1, ClosedFacts
<1>3. Revision' = Revision
    BY DEF Revision
<1>4. d.from = r.from
    BY <1>2 DEF SameFact
<1> HIDE DEF d
<1>5. Derived(d)
    BY <1>2, <1>3, <1>4 DEF Derived
<1> QED BY <1>5 DEF d

LEMMA CopiesDerived ==
    ASSUME AllDerived, NEW r \in Copies'
    PROVE  Derived(r)
<1>1. \/ r \in rows'
      \/ \E m \in Memories : cache'[m] # None /\ r = cache'[m]
      \/ \E c \in Callers : r \in Range(call'[c].prior) \/ r \in Range(call'[c].next)
      \/ r \in redo'.todo \/ r \in redo'.held
    BY NextCopyCases
<1> QED BY <1>1 DEF AllDerived

LEMMA CopiesStillAgree ==
    ASSUME ChainInv, AllDerived, born \subseteq born'
    PROVE  CopiesAgree'
<1>1. ASSUME NEW r \in Copies', NEW s \in Copies', r.id = s.id PROVE SameFact(r, s)
    <2>1. Derived(r) /\ Derived(s)
        BY CopiesDerived
    <2>2. PICK q \in Copies : SameFact(r, q)
        BY <2>1 DEF Derived
    <2>3. PICK t \in Copies : SameFact(s, t)
        BY <2>1 DEF Derived
    <2>4. SameFact(q, t)
        BY ZenonT(30), <1>1, <2>2, <2>3 DEF ChainInv, CopiesAgree, SameFact
    <2> QED BY <2>2, <2>3, <2>4 DEF SameFact
<1>2. ASSUME NEW r \in Copies' PROVE r.logical \in born' /\ (r.until = None \/ r.from <= r.until)
    <2>1. Derived(r)
        BY CopiesDerived
    <2>2. PICK q \in Copies : SameFact(r, q)
        BY <2>1 DEF Derived
    <2>3. r.logical \in born
        BY <2>2 DEF ChainInv, CopiesAgree, SameFact
    <2> QED BY <2>1, <2>3 DEF Derived
<1> QED BY <1>1, <1>2 DEF CopiesAgree, SameFact

(* The names of an envelope, when the copies it names are those of before.  *)
LEMMA NamesStay ==
    ASSUME NEW e, NamesOK(e),
           envelopes'[e].kind = envelopes[e].kind, envelopes'[e].on = envelopes[e].on,
           envelopes'[e].prior = envelopes[e].prior, envelopes'[e].next = envelopes[e].next,
           \A r \in Copies' : r.id \in envelopes[e].prior => \E q \in Copies : SameFact(r, q),
           envelopes[e].kind = "merge" =>
              \A r \in Copies' : r.id = envelopes[e].next[2] => \E q \in Copies : SameFact(r, q)
    PROVE  NamesOK(e)'
<1>1. PICK kind : kind = envelopes[e].kind /\ kind = envelopes'[e].kind
    OBVIOUS
<1>2. PICK on : on = envelopes[e].on /\ on = envelopes'[e].on
    OBVIOUS
<1>3. PICK prior : prior = envelopes[e].prior /\ prior = envelopes'[e].prior
    OBVIOUS
<1>4. PICK next : next = envelopes[e].next /\ next = envelopes'[e].next
    OBVIOUS
<1>5. /\ kind = "purge" => next = <<>> /\ \A r \in Copies : r.id \in prior => r.logical = on[1]
      /\ kind # "purge" => /\ Len(next) = IF kind = "merge" THEN 2 ELSE 1
                           /\ \A r \in Copies : r.id \in prior => is_live(r)
      /\ kind = "merge" => /\ Len(on) = 2
                           /\ \A r \in Copies : r.id = next[2] => r.merged_into # None /\ r.logical = on[2]
    BY <1>1, <1>2, <1>3, <1>4 DEF NamesOK
<1>6. ASSUME kind = "purge", NEW r \in Copies', r.id \in prior PROVE r.logical = on[1]
    <2>1. PICK q \in Copies : SameFact(r, q)
        BY <1>3, <1>6
    <2> QED BY <1>5, <1>6, <2>1 DEF SameFact
<1>7. ASSUME kind # "purge", NEW r \in Copies', r.id \in prior PROVE is_live(r)
    <2>1. PICK q \in Copies : SameFact(r, q)
        BY <1>3, <1>7
    <2>2. is_live(q)
        BY <1>5, <1>7, <2>1 DEF SameFact
    <2> QED BY <2>1, <2>2 DEF SameFact, is_live
<1>8. ASSUME kind = "merge", NEW r \in Copies', r.id = next[2] PROVE r.merged_into # None /\ r.logical = on[2]
    <2>1. PICK q \in Copies : SameFact(r, q)
        BY <1>1, <1>4, <1>8
    <2> QED BY ZenonT(30), <1>5, <1>8, <2>1 DEF SameFact
<1>9. /\ kind = "purge" => next = <<>> /\ \A r \in Copies' : r.id \in prior => r.logical = on[1]
      /\ kind # "purge" => /\ Len(next) = IF kind = "merge" THEN 2 ELSE 1
                           /\ \A r \in Copies' : r.id \in prior => is_live(r)
      /\ kind = "merge" => /\ Len(on) = 2
                           /\ \A r \in Copies' : r.id = next[2] => r.merged_into # None /\ r.logical = on[2]
    BY <1>5, <1>6, <1>7, <1>8
<1> QED BY ZenonT(30), <1>1, <1>2, <1>3, <1>4, <1>9 DEF NamesOK, is_live

(* An envelope keeps its promises when it changes its state at most.        *)
LEMMA EnvelopeStays ==
    ASSUME ChainInv, AllDerived, purging \subseteq purging', NEW e \in 1 .. Len(envelopes),
           envelopes'[e].kind = envelopes[e].kind, envelopes'[e].on = envelopes[e].on,
           envelopes'[e].prior = envelopes[e].prior, envelopes'[e].next = envelopes[e].next
    PROVE  EnvelopeOK(e)'
<1>1. EnvelopeOK(e)
    BY DEF ChainInv
<1>2. NamesOK(e)'
    <2>1. \A r \in Copies' : \E q \in Copies : SameFact(r, q)
        BY CopiesDerived DEF Derived
    <2>2. NamesOK(e)
        BY <1>1 DEF EnvelopeOK
    <2> QED BY <2>1, <2>2, NamesStay
<1>3. CASE envelopes[e].kind = "purge"
    BY <1>1, <1>2, <1>3 DEF EnvelopeOK
<1>4. CASE envelopes[e].kind # "purge"
    <2>1. PICK prior : prior = envelopes[e].prior
        OBVIOUS
    <2>2. PICK next : next = envelopes[e].next
        OBVIOUS
    <2>3. /\ next # <<>>
          /\ \A r \in Copies : r.id \in prior =>
                \E i \in 1 .. Len(next) :
                    \A s \in Copies : s.id = next[i] => s.logical = r.logical /\ s.version = r.version + 1
          /\ \A r, s \in Copies : {r.id, s.id} \subseteq Range(next) => r.from = s.from
        BY <1>1, <1>4, <2>1, <2>2 DEF EnvelopeOK
    <2>4. \A r \in Copies' : \E q \in Copies : SameFact(r, q)
        BY CopiesDerived DEF Derived
    <2>5. ASSUME NEW r \in Copies', r.id \in prior
          PROVE  \E i \in 1 .. Len(next) :
                     \A s \in Copies' : s.id = next[i] => s.logical = r.logical /\ s.version = r.version + 1
        <3>1. PICK q \in Copies : SameFact(r, q)
            BY <2>4
        <3>2. q.id \in prior /\ q.logical = r.logical /\ q.version = r.version
            BY <2>5, <3>1 DEF SameFact
        <3>3. PICK i \in 1 .. Len(next) :
                  \A s \in Copies : s.id = next[i] => s.logical = q.logical /\ s.version = q.version + 1
            BY <2>3, <3>2
        <3>4. ASSUME NEW s \in Copies', s.id = next[i]
              PROVE  s.logical = r.logical /\ s.version = r.version + 1
            <4>1. PICK u \in Copies : SameFact(s, u)
                BY <2>4
            <4> QED BY <3>2, <3>3, <3>4, <4>1 DEF SameFact
        <3> QED BY <3>4
    <2>6. ASSUME NEW r \in Copies', NEW s \in Copies', {r.id, s.id} \subseteq Range(next)
          PROVE  r.from = s.from
        <3>1. PICK q \in Copies : SameFact(r, q)
            BY <2>4
        <3>2. PICK u \in Copies : SameFact(s, u)
            BY <2>4
        <3> QED BY ZenonT(30), <2>3, <2>6, <3>1, <3>2 DEF SameFact
    <2>7. envelopes'[e].kind # "purge" /\ envelopes'[e].prior = prior /\ envelopes'[e].next = next
        BY <1>4, <2>1, <2>2
    <2>8. /\ envelopes'[e].next # <<>>
          /\ \A r \in Copies' : r.id \in envelopes'[e].prior =>
                \E i \in 1 .. Len(envelopes'[e].next) :
                    \A s \in Copies' : s.id = envelopes'[e].next[i]
                                      => s.logical = r.logical /\ s.version = r.version + 1
          /\ \A r, s \in Copies' : {r.id, s.id} \subseteq Range(envelopes'[e].next) => r.from = s.from
        BY <2>3, <2>5, <2>6, <2>7
    <2> QED BY <1>2, <2>7, <2>8 DEF EnvelopeOK
<1> QED BY <1>3, <1>4

(* A step keeps the newest revision of every chain that nobody purges ...   *)
HeadStays ==
    \A r \in rows : \/ r.logical \in purging
                    \/ \E s \in rows' : s.logical = r.logical /\ s.version >= r.version

(* ... and, unless a rewrite was cut in two, every revision.                *)
Steady ==
    /\ born \subseteq born' /\ purging \subseteq purging' /\ torn \subseteq torn'
    /\ HeadStays
    /\ \A r \in rows \cup InHand :
          \/ r.logical \in purging' \cup torn'
          \/ \E s \in rows' \cup InHand' : s.logical = r.logical /\ s.version = r.version /\ s.from = r.from

LEMMA SupersededStays ==
    ASSUME Steady, Typed, rows' \subseteq Revision', given' \in Nat,
           NEW r, r.version \in Nat, Superseded(r)
    PROVE  Superseded(r)'
<1>1. CASE r.logical \in purging
    BY <1>1 DEF Superseded, Steady, HeadStays
<1>2. CASE \E s \in rows : s.logical = r.logical /\ s.version > r.version
    <2>1. PICK s \in rows : s.logical = r.logical /\ s.version > r.version
        BY <1>2
    <2>2. CASE s.logical \in purging
        BY <2>1, <2>2 DEF Superseded, Steady, HeadStays
    <2>3. CASE \E q \in rows' : q.logical = s.logical /\ q.version >= s.version
        <3>1. PICK q \in rows' : q.logical = s.logical /\ q.version >= s.version
            BY <2>3
        <3>2. s.version \in 1 .. given /\ given \in Nat
            BY DEF Typed, Revision
        <3>3. q.version \in 1 .. given'
            BY DEF Revision
        <3>4. q.version > r.version
            BY SMT, <2>1, <3>1, <3>2, <3>3
        <3> QED BY <2>1, <3>1, <3>4 DEF Superseded
    <2> QED BY <2>2, <2>3 DEF Steady, HeadStays
<1> QED BY <1>1, <1>2 DEF Superseded

LEMMA ShadowedStays ==
    ASSUME Steady, NEW r, NEW t, Shadowed(r, t)
    PROVE  Shadowed(r, t)'
<1>1. CASE r.logical \in purging \cup torn
    BY <1>1 DEF Shadowed, Steady
<1>2. CASE \E s \in rows \cup InHand : s.logical = r.logical /\ s.version > r.version /\ s.from <= t
    <2>1. PICK s \in rows \cup InHand : s.logical = r.logical /\ s.version > r.version /\ s.from <= t
        BY <1>2
    <2>2. CASE s.logical \in purging' \cup torn'
        BY <2>1, <2>2 DEF Shadowed
    <2>3. CASE \E q \in rows' \cup InHand' : q.logical = s.logical /\ q.version = s.version /\ q.from = s.from
        BY <2>1, <2>3 DEF Shadowed
    <2> QED BY <2>2, <2>3 DEF Steady
<1> QED BY <1>1, <1>2 DEF Shadowed

(* The revisions a call works on stay superseded, and hidden.               *)
LEMMA PriorsStay ==
    ASSUME ChainInv, Steady, rows' \subseteq Revision', given' \in Nat, NEW d \in Callers,
           call'[d].prior = call[d].prior
    PROVE  /\ (\A i \in 1 .. Len(call[d].prior) : Superseded(call[d].prior[i]))
              => \A i \in 1 .. Len(call'[d].prior) : Superseded(call[d].prior[i])'
           /\ /\ call'[d].next[1].from = call[d].next[1].from
              /\ \A i \in 1 .. Len(call[d].prior) : Shadowed(call[d].prior[i], call[d].next[1].from)
              => \A i \in 1 .. Len(call'[d].prior) : Shadowed(call[d].prior[i], call[d].next[1].from)'
<1>1. PICK p : p = call[d].prior
    OBVIOUS
<1>2. PICK t : t = call[d].next[1].from
    OBVIOUS
<1>3. \A i \in 1 .. Len(p) : p[i].version \in Nat
    <2>1. \A i \in 1 .. Len(p) : p[i] \in Revision /\ given \in Nat
        BY <1>1, CopiesFacts DEF ChainInv, Typed
    <2>2. \A n \in 1 .. given : n \in Nat
        BY SMT
    <2> QED BY <2>1, <2>2, RevisionType
<1>4. \A i \in 1 .. Len(p) : Superseded(p[i]) => Superseded(p[i])'
    BY <1>3, SupersededStays DEF ChainInv
<1>5. \A i \in 1 .. Len(p) : Shadowed(p[i], t) => Shadowed(p[i], t)'
    BY ShadowedStays
<1>6. (\A i \in 1 .. Len(call[d].prior) : Superseded(call[d].prior[i]))
      => \A i \in 1 .. Len(call'[d].prior) : Superseded(call[d].prior[i])'
    BY <1>1, <1>4 DEF Superseded
<1>7. ASSUME call'[d].next[1].from = call[d].next[1].from,
             \A i \in 1 .. Len(call[d].prior) : Shadowed(call[d].prior[i], call[d].next[1].from),
             NEW i \in 1 .. Len(call'[d].prior)
      PROVE  Shadowed(call[d].prior[i], call[d].next[1].from)'
    <2>1. Shadowed(p[i], t)
        BY <1>1, <1>2, <1>7
    <2>2. Shadowed(p[i], t)'
        BY <1>1, <1>5, <1>7, <2>1
    <2> QED BY <1>1, <1>2, <1>7, <2>2 DEF Shadowed
<1> QED BY <1>6, <1>7

LEMMA CallStays ==
    ASSUME ChainInv, Steady, rows' \subseteq Revision', given' \in Nat, NEW d \in Callers,
           call'[d] = call[d]
    PROVE  CallOK(d)'
<1>1. CallOK(d)
    BY DEF ChainInv
<1>2. Shape(call'[d])
    BY <1>1 DEF CallOK
<1>3. call'[d].op # "Repair" => Range(call'[d].on) \subseteq born'
    BY <1>1 DEF CallOK, Steady
<1>4. call'[d].pc \in {"sweep", "unlink"} => call'[d].on[1] \in purging'
    BY <1>1 DEF CallOK, Steady
<1>5. call'[d].pc \in Stored => \A i \in 1 .. Len(call'[d].prior) : Superseded(call[d].prior[i])'
    BY <1>1, PriorsStay DEF CallOK
<1>6. call'[d].pc \in {"close", "rewrite", "audit"} =>
          \A i \in 1 .. Len(call'[d].prior) : Shadowed(call[d].prior[i], call[d].next[1].from)'
    BY <1>1, PriorsStay DEF CallOK
<1> QED BY <1>2, <1>3, <1>4, <1>5, <1>6 DEF CallOK

-----------------------------------------------------------------------------
(* Steps of a call. *)

(* The rows in the hands of the calls and of the recovery.                  *)
LEMMA HandCases ==
    ASSUME NEW r
    PROVE  r \in InHand <=> \/ r \in redo.held
                            \/ \E d \in Callers : /\ call[d].pc = "rewrite"
                                                  /\ r = Closed(call[d].prior[call[d].k], call[d].next[1].from)
BY DEF InHand, Prior

LEMMA NextHandCases ==
    ASSUME NEW r
    PROVE  r \in InHand' <=> \/ r \in redo'.held
                             \/ \E d \in Callers : /\ call'[d].pc = "rewrite"
                                                   /\ r = Closed(call'[d].prior[call'[d].k], call'[d].next[1].from)
BY DEF InHand, Prior

(* A step of c leaves the rows in the hands of the others.                  *)
LEMMA HandKept ==
    ASSUME NEW c \in Callers, call[c].pc # "rewrite", \A d \in Callers \ {c} : call'[d] = call[d],
           redo.held \subseteq redo'.held
    PROVE  InHand \subseteq InHand'
<1> SUFFICES ASSUME NEW r \in InHand PROVE r \in InHand'
    OBVIOUS
<1>1. CASE r \in redo.held
    BY <1>1, NextHandCases
<1>2. CASE r \notin redo.held
    <2>1. PICK d \in Callers : /\ call[d].pc = "rewrite"
                              /\ r = Closed(call[d].prior[call[d].k], call[d].next[1].from)
        BY <1>2, HandCases
    <2>2. call'[d] = call[d]
        BY <2>1
    <2> QED BY <2>1, <2>2, NextHandCases
<1> QED BY <1>1, <1>2

LEMMA SteadyRows ==
    ASSUME Typed, rows \subseteq rows', InHand \subseteq InHand',
           born \subseteq born', purging \subseteq purging', torn \subseteq torn'
    PROVE  Steady
<1>1. \A r \in rows : r.version \in Nat
    <2>1. \A r \in rows : r.version \in 1 .. given /\ given \in Nat
        BY DEF Typed, Revision
    <2> QED BY SMT, <2>1
<1>2. \A n \in Nat : n >= n
    BY SMT
<1> QED BY <1>1, <1>2 DEF Steady, HeadStays

(* At most the state of an envelope changes.                                *)
LEMMA OnlyStates ==
    ASSUME envelopes \in Seq(MutationEnvelope),
           \/ envelopes' = envelopes
           \/ \E e \in Nat, s \in {"applied", "failed"} : Set(e, s)
    PROVE  /\ envelopes' \in Seq(MutationEnvelope) /\ Len(envelopes') = Len(envelopes)
           /\ \A e \in 1 .. Len(envelopes) :
                 /\ envelopes'[e].kind = envelopes[e].kind /\ envelopes'[e].on = envelopes[e].on
                 /\ envelopes'[e].prior = envelopes[e].prior /\ envelopes'[e].next = envelopes[e].next
<1>1. CASE envelopes' = envelopes
    BY <1>1
<1>2. ASSUME NEW f \in Nat, NEW s \in {"applied", "failed"}, Set(f, s)
      PROVE  /\ envelopes' \in Seq(MutationEnvelope) /\ Len(envelopes') = Len(envelopes)
             /\ \A e \in 1 .. Len(envelopes) :
                   /\ envelopes'[e].kind = envelopes[e].kind /\ envelopes'[e].on = envelopes[e].on
                   /\ envelopes'[e].prior = envelopes[e].prior /\ envelopes'[e].next = envelopes[e].next
    <2>1. \A x \in MutationEnvelope : /\ [x EXCEPT !.state = s] \in MutationEnvelope
                                      /\ [x EXCEPT !.state = s].kind = x.kind
                                      /\ [x EXCEPT !.state = s].on = x.on
                                      /\ [x EXCEPT !.state = s].prior = x.prior
                                      /\ [x EXCEPT !.state = s].next = x.next
        BY ONLY s \in {"applied", "failed"}, SMT DEF MutationEnvelope
    <2>2. DOMAIN envelopes = 1 .. Len(envelopes) /\ Len(envelopes) \in Nat
          /\ \A e \in 1 .. Len(envelopes) : envelopes[e] \in MutationEnvelope
        BY SMT
    <2>3. DOMAIN envelopes' = 1 .. Len(envelopes)
          /\ \A e \in 1 .. Len(envelopes) :
                envelopes'[e] = IF e = f THEN [envelopes[e] EXCEPT !.state = s] ELSE envelopes[e]
        BY <1>2, <2>2 DEF Set
    <2>4. envelopes' = [e \in 1 .. Len(envelopes) |-> envelopes'[e]]
        BY <1>2, <2>2 DEF Set
    <2>5. \A e \in 1 .. Len(envelopes) : envelopes'[e] \in MutationEnvelope
        BY <2>1, <2>2, <2>3
    <2>6. envelopes' \in Seq(MutationEnvelope) /\ Len(envelopes') = Len(envelopes)
        BY SMT, <2>2, <2>4, <2>5
    <2> QED BY <2>1, <2>2, <2>3, <2>6
<1> QED BY <1>1, <1>2

(* A call that changes the state of an envelope at most.                    *)
LEMMA EnvelopesStay ==
    ASSUME ChainInv, AllDerived, given' = given, purging \subseteq purging',
           \/ envelopes' = envelopes
           \/ \E e \in Nat, s \in {"applied", "failed"} : Set(e, s)
    PROVE  /\ envelopes' \in Seq(MutationEnvelope')
           /\ \A e \in 1 .. Len(envelopes') : EnvelopeOK(e)'
<1>1. envelopes \in Seq(MutationEnvelope) /\ MutationEnvelope' = MutationEnvelope
    BY DEF ChainInv, Typed, MutationEnvelope
<1>2. /\ envelopes' \in Seq(MutationEnvelope) /\ Len(envelopes') = Len(envelopes)
      /\ \A e \in 1 .. Len(envelopes) :
            /\ envelopes'[e].kind = envelopes[e].kind /\ envelopes'[e].on = envelopes[e].on
            /\ envelopes'[e].prior = envelopes[e].prior /\ envelopes'[e].next = envelopes[e].next
    BY <1>1, OnlyStates
<1> QED BY <1>1, <1>2, EnvelopeStays

LEMMA CallerStep ==
    ASSUME ChainInv, NEW c \in Callers, phase = "up", phase' = phase, redo' = redo, given' = given,
           \A d \in Callers \ {c} : call'[d] = call[d], call' \in [Callers -> Call'],
           Steady, AllDerived, RowsOK', CallOK(c)',
           envelopes' \in Seq(MutationEnvelope'), \A e \in 1 .. Len(envelopes') : EnvelopeOK(e)',
           nodes' \subseteq 1 .. given, cache' \in [Memories -> Revision \cup {None}],
           \A m \in Memories : cache'[m] = None \/ cache'[m].logical = m,
           born' \subseteq Memories, purging' \cup torn' \subseteq born'
    PROVE  ChainInv'
<1>1. Revision' = Revision
    BY DEF Revision
<1>2. rows' \subseteq Revision'
    BY DEF AllDerived, Derived
<1>3. given' \in Nat /\ redo' = NoRedo
    BY DEF ChainInv, Typed
<1>4. Typed'
    <2>1. phase \in {"down", "opening", "up"} /\ redo \in [env : Nat, todo : SUBSET Revision,
                                                          held : SUBSET Revision, outcome : {"applied", "failed"}]
        BY DEF ChainInv, Typed
    <2>2. phase' = "up"
        OBVIOUS
    <2>3. /\ given' \in Nat /\ nodes' \subseteq 1 .. given' /\ rows' \subseteq Revision'
          /\ redo' \in [env : Nat, todo : SUBSET Revision', held : SUBSET Revision', outcome : {"applied", "failed"}]
          /\ cache' \in [Memories -> Revision' \cup {None}]
        BY <1>1, <1>2, <1>3, <2>1
    <2>4. phase' \in {"down", "opening", "up"} /\ (phase' # "up" => \A d \in Callers : call'[d] = Idle)
        BY <2>1, <2>2
    <2> QED BY <1>3, <2>3, <2>4 DEF Typed, NoRedo
<1>5. CopiesAgree'
    BY CopiesStillAgree DEF Steady
<1>6. RedoOK'
    <2>1. redo'.todo = {} /\ redo'.held = {}
        BY SMT, <1>3 DEF NoRedo
    <2> QED BY <2>1 DEF RedoOK
<1>7. \A d \in Callers : CallOK(d)'
    BY <1>2, <1>3, CallStays
<1> QED BY <1>4, <1>5, <1>6, <1>7 DEF ChainInv

(* The rows of before stay hidden.                                          *)
LEMMA RowsStay ==
    ASSUME ChainInv, Steady, rows' \subseteq rows
    PROVE  RowsOK'
BY ShadowedStays DEF ChainInv, RowsOK

(* Where a step of c leads.                                                 *)
LEMMA IdleFacts ==
    /\ Idle \in Call /\ Shape(Idle) /\ Range(Idle.on) = {}
    /\ Range(Idle.prior) \cup Range(Idle.next) = {} /\ Idle.pc = "idle"
<1>1. <<>> \in Seq(Memories) /\ <<>> \in Seq(Revision)
    BY SMT
<1>2. Idle \in Call
    BY SMT, <1>1 DEF Idle, Call, Stages
<1>3. Idle.pc = "idle" /\ Idle.on = <<>> /\ Idle.prior = <<>> /\ Idle.next = <<>>
    BY DEF Idle
<1>4. Range(<<>>) = {}
    BY SMT DEF Range
<1>5. Shape(Idle)
    BY <1>3 DEF Shape, Writing, Stored
<1> QED BY <1>2, <1>3, <1>4, <1>5

LEMMA ReturnFacts ==
    ASSUME Typed, given' = given, NEW c \in Callers, Return(c)
    PROVE  /\ call' \in [Callers -> Call'] /\ call'[c] = Idle /\ CallOK(c)'
           /\ \A d \in Callers \ {c} : call'[d] = call[d]
<1>1. Call' = Call
    BY DEF Call, Revision
<1>2. call \in [Callers -> Call]
    BY DEF Typed
<1>3. call'[c] = Idle /\ \A d \in Callers \ {c} : call'[d] = call[d]
    BY <1>2 DEF Return
<1>4. call' \in [Callers -> Call']
    BY <1>1, <1>2, IdleFacts DEF Return
<1>5. CallOK(c)'
    BY <1>3, IdleFacts DEF CallOK, Stored
<1> QED BY <1>3, <1>4, <1>5

(* Only the stage, the place in a list and the success change.              *)
Moved(c) ==
    /\ call' \in [Callers -> Call'] /\ \A d \in Callers \ {c} : call'[d] = call[d]
    /\ call'[c].op = call[c].op /\ call'[c].on = call[c].on
    /\ call'[c].prior = call[c].prior /\ call'[c].next = call[c].next /\ call'[c].env = call[c].env

LEMMA MoveFacts ==
    ASSUME Typed, given' = given, NEW c \in Callers, NEW at \in Stages, NEW n \in Nat, NEW b \in BOOLEAN,
           call' = [call EXCEPT ![c] = [call[c] EXCEPT !.pc = at, !.k = n, !.ok = b]]
    PROVE  Moved(c) /\ call'[c].pc = at /\ call'[c].k = n
<1>1. Call' = Call
    BY DEF Call, Revision
<1>2. call \in [Callers -> Call]
    BY DEF Typed
<1>3. call'[c] = [call[c] EXCEPT !.pc = at, !.k = n, !.ok = b] /\ \A d \in Callers \ {c} : call'[d] = call[d]
    BY <1>2
<1>4. PICK y : y = [call[c] EXCEPT !.pc = at, !.k = n, !.ok = b]
    OBVIOUS
<1>5. PICK x \in Call : x = call[c]
    BY <1>2
<1>6. /\ y \in Call /\ y.pc = at /\ y.k = n /\ y.op = x.op /\ y.on = x.on
      /\ y.prior = x.prior /\ y.next = x.next /\ y.env = x.env
    <2>1. y = [x EXCEPT !.pc = at, !.k = n, !.ok = b]
        BY <1>4, <1>5
    <2>2. y.pc = at /\ y.k = n /\ y.op = x.op /\ y.on = x.on /\ y.prior = x.prior /\ y.next = x.next /\ y.env = x.env
        BY ONLY <2>1, x \in Call, SMT DEF Call
    <2>3. y \in Call
        BY ONLY <2>1, x \in Call, at \in Stages, n \in Nat, b \in BOOLEAN, Zenon DEF Call
    <2> QED BY <2>2, <2>3
<1>7. call' \in [Callers -> Call']
    BY <1>1, <1>2, <1>4, <1>6
<1> QED BY <1>3, <1>4, <1>5, <1>6, <1>7 DEF Moved

LEMMA GoFacts ==
    ASSUME Typed, given' = given, NEW c \in Callers, NEW at \in Stages, Go(c, at)
    PROVE  Moved(c) /\ call'[c].pc = at /\ call'[c].k = call[c].k
<1>1. call \in [Callers -> Call]
    BY DEF Typed
<1>2. PICK x \in Call : x = call[c]
    BY <1>1
<1>3. PICK n \in Nat : n = x.k
    BY DEF Call
<1>4. PICK b \in BOOLEAN : b = x.ok
    BY DEF Call
<1>5. [x EXCEPT !.pc = at] = [x EXCEPT !.pc = at, !.k = n, !.ok = b]
    BY <1>3, <1>4 DEF Call
<1>6. call' = [call EXCEPT ![c] = [call[c] EXCEPT !.pc = at]]
    BY DEF Go
<1>7. call' = [call EXCEPT ![c] = [call[c] EXCEPT !.pc = at, !.k = n, !.ok = b]]
    BY <1>2, <1>5, <1>6
<1>8. Moved(c) /\ call'[c].pc = at /\ call'[c].k = n
    BY <1>7, MoveFacts
<1> QED BY <1>2, <1>3, <1>8

LEMMA NextPriorFacts ==
    ASSUME Typed, given' = given, NEW c \in Callers, NEW now \in Stages, NEW after \in Stages, NEW b \in BOOLEAN,
           NextPrior(c, now, after, b)
    PROVE  /\ Moved(c)
           /\ call'[c].pc = IF AtLast(c) THEN after ELSE now
           /\ call'[c].k = IF AtLast(c) THEN 1 ELSE call[c].k + 1
<1> DEFINE at == IF AtLast(c) THEN after ELSE now
           n == IF AtLast(c) THEN 1 ELSE call[c].k + 1
<1>1. call \in [Callers -> Call]
    BY DEF Typed
<1>2. call[c].k \in Nat /\ call[c].ok \in BOOLEAN
    BY <1>1 DEF Call
<1>3. at \in Stages /\ n \in Nat /\ (call[c].ok /\ b) \in BOOLEAN
    BY SMT, <1>2
<1>4. call' = [call EXCEPT ![c] = [call[c] EXCEPT !.pc = at, !.k = n, !.ok = (call[c].ok /\ b)]]
    BY <1>1 DEF NextPrior
<1> HIDE DEF at, n
<1>5. Moved(c) /\ call'[c].pc = at /\ call'[c].k = n
    BY <1>3, <1>4, MoveFacts
<1> QED BY <1>5 DEF at, n

(* A step of c that touches neither rows nor what others do.                *)
Quiet(c) ==
    /\ call[c].pc # "rewrite" /\ phase = "up"
    /\ UNCHANGED <<rows, redo, phase, given, purging, torn>>
    /\ born \subseteq born' /\ born' \subseteq Memories
    /\ call' \in [Callers -> Call'] /\ \A d \in Callers \ {c} : call'[d] = call[d]

LEMMA QuietSteady ==
    ASSUME ChainInv, NEW c \in Callers, Quiet(c)
    PROVE  Steady /\ rows' \subseteq Revision' /\ given' \in Nat
<1>1. InHand \subseteq InHand'
    BY HandKept DEF Quiet
<1>2. Steady
    BY <1>1, SteadyRows DEF Quiet, ChainInv
<1>3. rows' \subseteq Revision' /\ given' \in Nat
    BY DEF Quiet, ChainInv, Typed, Revision
<1> QED BY <1>2, <1>3

LEMMA QuietStep ==
    ASSUME ChainInv, NEW c \in Callers, Quiet(c), CallOK(c)',
           Range(call'[c].prior) \cup Range(call'[c].next) \subseteq Copies,
           \/ envelopes' = envelopes
           \/ \E e \in Nat, s \in {"applied", "failed"} : Set(e, s),
           nodes' \subseteq 1 .. given,
           \/ cache' = cache
           \/ /\ cache' \in [Memories -> Revision \cup {None}]
              /\ \A m \in Memories : cache'[m] # None => cache'[m] \in Copies /\ cache'[m].logical = m
    PROVE  ChainInv'
<1>1. given' = given /\ rows' = rows /\ redo' = redo /\ Typed /\ phase' = phase /\ phase = "up"
    BY DEF Quiet, ChainInv
<1>2. /\ cache' \in [Memories -> Revision \cup {None}]
      /\ \A m \in Memories : cache'[m] # None => cache'[m] \in Copies /\ cache'[m].logical = m
    BY <1>1, CopiesFacts DEF Typed
<1>3. \A d \in Callers : Range(call'[d].prior) \cup Range(call'[d].next) \subseteq Copies
    BY <1>1, CopiesFacts DEF Quiet
<1>4. rows' \subseteq Copies /\ redo'.todo \cup redo'.held \subseteq Copies
    BY <1>1, CopiesFacts
<1>5. AllDerived
    BY <1>1, <1>2, <1>3, <1>4, OldCopies DEF AllDerived
<1>6. Steady
    BY QuietSteady
<1>7. RowsOK'
    BY <1>1, <1>6, RowsStay
<1>8. purging \subseteq purging' /\ purging' \cup torn' \subseteq born' /\ born' \subseteq Memories
    BY <1>1 DEF Quiet, Typed
<1>9. envelopes' \in Seq(MutationEnvelope') /\ \A e \in 1 .. Len(envelopes') : EnvelopeOK(e)'
    BY <1>1, <1>5, <1>8, EnvelopesStay
<1>10. \A m \in Memories : cache'[m] = None \/ cache'[m].logical = m
    BY <1>2
<1>11. call' \in [Callers -> Call'] /\ \A d \in Callers \ {c} : call'[d] = call[d]
    BY DEF Quiet
<1> QED BY ZenonT(30), <1>1, <1>2, <1>5, <1>6, <1>7, <1>8, <1>9, <1>10, <1>11, CallerStep

(* The call gives up or is done.                                            *)
LEMMA QuietReturn ==
    ASSUME ChainInv, NEW c \in Callers, call[c].pc # "rewrite", phase = "up",
           UNCHANGED <<rows, redo, phase, given, purging, torn, born>>, Return(c)
    PROVE  /\ Quiet(c) /\ CallOK(c)'
           /\ Range(call'[c].prior) \cup Range(call'[c].next) \subseteq Copies
<1>1. /\ call' \in [Callers -> Call'] /\ call'[c] = Idle /\ CallOK(c)'
      /\ \A d \in Callers \ {c} : call'[d] = call[d]
    BY ReturnFacts DEF ChainInv
<1>2. Quiet(c)
    BY <1>1 DEF Quiet, ChainInv, Typed
<1> QED BY <1>1, <1>2, IdleFacts

LEMMA QuietMove ==
    ASSUME ChainInv, NEW c \in Callers, call[c].pc # "rewrite", phase = "up",
           UNCHANGED <<rows, redo, phase, given, purging, torn, born>>, Moved(c)
    PROVE  /\ Quiet(c)
           /\ Range(call'[c].prior) \cup Range(call'[c].next) \subseteq Copies
<1>1. Quiet(c)
    BY DEF Moved, Quiet, ChainInv, Typed
<1>2. Range(call[c].prior) \cup Range(call[c].next) \subseteq Copies
    BY CopiesFacts DEF ChainInv
<1> QED BY <1>1, <1>2 DEF Moved

(* From one stage of writing to another.                                    *)
LEMMA WritingStays ==
    ASSUME ChainInv, Steady, rows' \subseteq Revision', given' \in Nat, NEW c \in Callers, Moved(c),
           call[c].pc \in Writing \ {"finish"}, call'[c].pc \in Writing,
           call'[c].pc = "node" => call'[c].k \in 1 .. Len(call[c].next),
           call'[c].pc \in Stored \cup {"append"} /\ call[c].prior # <<>> => call'[c].k \in 1 .. Len(call[c].prior),
           call'[c].pc \in Stored \ {"cache"} => call[c].prior # <<>>,
           call'[c].pc \in Stored =>
              call[c].pc \in Stored \/ \A i \in 1 .. Len(call[c].prior) : Superseded(call[c].prior[i])',
           call'[c].pc \in {"close", "rewrite", "audit"} =>
              \/ call[c].pc \in {"close", "rewrite", "audit"}
              \/ \A i \in 1 .. Len(call[c].prior) : Shadowed(call[c].prior[i], call[c].next[1].from)'
    PROVE  CallOK(c)'
<1>1. CallOK(c)
    BY DEF ChainInv
<1>2. call[c].op # "Purge" /\ ChainsOK(call[c]) /\ NextOK(call[c])
    BY <1>1 DEF CallOK, Shape
<1>3. /\ call'[c].op = call[c].op /\ call'[c].on = call[c].on
      /\ call'[c].prior = call[c].prior /\ call'[c].next = call[c].next
    BY DEF Moved
<1>4. ChainsOK(call'[c]) /\ NextOK(call'[c])
    <2>1. PICK x : x = call[c]
        OBVIOUS
    <2>2. PICK y : y = call'[c]
        OBVIOUS
    <2>3. y.op = x.op /\ y.on = x.on /\ y.prior = x.prior /\ y.next = x.next
        BY <1>3, <2>1, <2>2
    <2>4. ChainsOK(x) => ChainsOK(y)
        BY ONLY <2>3, Zenon DEF ChainsOK
    <2>5. NextOK(x) => NextOK(y)
        BY ONLY <2>3, SMT DEF NextOK
    <2> QED BY <1>2, <2>1, <2>2, <2>4, <2>5
<1>5. Shape(call'[c])
    BY <1>2, <1>3, <1>4 DEF Shape, Writing
<1>6. call'[c].op # "Repair" => Range(call'[c].on) \subseteq born'
    BY <1>1, <1>3 DEF CallOK, Steady
<1>7. call'[c].pc \notin {"sweep", "unlink"}
    BY DEF Writing
<1>8. call'[c].pc \in Stored => \A i \in 1 .. Len(call'[c].prior) : Superseded(call[c].prior[i])'
    BY <1>1, <1>3, PriorsStay DEF CallOK
<1>9. call'[c].pc \in {"close", "rewrite", "audit"} =>
          \A i \in 1 .. Len(call'[c].prior) : Shadowed(call[c].prior[i], call[c].next[1].from)'
    BY <1>1, <1>3, PriorsStay DEF CallOK
<1> QED BY <1>5, <1>6, <1>7, <1>8, <1>9 DEF CallOK


-----------------------------------------------------------------------------
(* The steps of a call. *)

LEMMA BeginStep ==
    ASSUME ChainInv, NEW c \in Callers, NEW op \in Operations, NEW on \in Seq(Memories),
           NEW at \in {"unique", "resolve", "history", "scan"}, Begin(c, op, on, at),
           born \subseteq born', born' \subseteq Memories,
           at = "unique" => op = "Create" /\ Len(on) = 1,
           at = "resolve" => op \in Edits /\ Len(on) = (IF op = "Merge" THEN 2 ELSE 1),
           at = "history" => op = "Purge" /\ Len(on) = 1,
           op # "Repair" => Range(on) \subseteq born'
    PROVE  ChainInv'
<1>1. /\ phase = "up" /\ call[c].pc = "idle"
      /\ UNCHANGED <<rows, nodes, envelopes, cache, phase, redo, purging, torn, given>>
      /\ call' = [call EXCEPT ![c] = [Idle EXCEPT !.pc = at, !.op = op, !.on = on]]
    BY DEF Begin, Up, store, bounds
<1>2. call \in [Callers -> Call] /\ Typed /\ nodes \subseteq 1 .. given /\ Call' = Call
    BY <1>1 DEF ChainInv, Typed, Call, Revision
<1>3. PICK y : y = [Idle EXCEPT !.pc = at, !.op = op, !.on = on]
    OBVIOUS
<1>4. y.pc = at /\ y.op = op /\ y.on = on /\ y.prior = <<>> /\ y.next = <<>> /\ y.k = 1
    BY ONLY <1>3, Zenon DEF Idle
<1>5. y \in Call
    <2>1. Idle \in Call /\ at \in Stages
        BY IdleFacts DEF Stages
    <2> QED BY <1>3, <2>1 DEF Call
<1>6. call'[c] = y /\ call' \in [Callers -> Call'] /\ \A d \in Callers \ {c} : call'[d] = call[d]
    BY <1>1, <1>2, <1>3, <1>5
<1>7. Len(<<>>) = 0 /\ 1 .. 0 = {} /\ Range(<<>>) = {}
    BY SMT DEF Range
<1>8. at \in {"unique", "resolve"} => ChainsOK(y) /\ Len(y.prior) < Len(y.on)
    <2> SUFFICES ASSUME at \in {"unique", "resolve"} PROVE ChainsOK(y) /\ Len(y.prior) < Len(y.on)
        OBVIOUS
    <2>1. Len(on) \in {1, 2} /\ Len(y.prior) = 0 /\ y.op \in Edits \cup {"Create"}
        BY <1>4, <1>7
    <2>2. \A n \in {1, 2} : 0 < n /\ 0 <= n
        BY SMT
    <2>3. Len(y.on) = IF y.op = "Merge" THEN 2 ELSE 1
        BY <1>4
    <2> QED BY <1>4, <1>7, <2>1, <2>2, <2>3 DEF ChainsOK
<1>9. Shape(y)
    <2>1. "Create" \notin Edits
        BY DEF Edits
    <2> QED BY <1>4, <1>8, <2>1 DEF Shape, Writing, Stored
<1>10. CallOK(c)'
    BY <1>4, <1>6, <1>9 DEF CallOK, Stored
<1>11. Quiet(c)
    BY <1>1, <1>6 DEF Quiet
<1>12. Range(call'[c].prior) \cup Range(call'[c].next) \subseteq Copies
    BY <1>4, <1>6, <1>7
<1> QED BY <1>1, <1>2, <1>10, <1>11, <1>12, QuietStep

LEMMA AskStep ==
    ASSUME ChainInv, NEW c \in Callers, Ask(c)
    PROVE  ChainInv'
<1>1. born \subseteq Memories
    BY DEF ChainInv, Typed
<1>2. \A m \in Memories : <<m>> \in Seq(Memories) /\ Len(<<m>>) = 1 /\ Range(<<m>>) = {m}
    <2>1. \A m \in Memories : <<m>> \in Seq(Memories) /\ Len(<<m>>) = 1 /\ DOMAIN <<m>> = 1 .. 1 /\ <<m>>[1] = m
        BY SMT
    <2>2. 1 .. 1 = {1}
        BY SMT
    <2> QED BY ZenonT(30), <2>1, <2>2 DEF Range
<1>3. CASE \E m \in Memories \ born : Begin(c, "Create", <<m>>, "unique") /\ born' = born \cup {m}
    <2>1. PICK m \in Memories \ born : Begin(c, "Create", <<m>>, "unique") /\ born' = born \cup {m}
        BY <1>3
    <2>2. "Create" \in Operations
        BY <2>1 DEF Begin
    <2> QED BY <1>1, <1>2, <2>1, <2>2, BeginStep
<1>4. CASE \E m \in born, op \in {"Correct", "Supersede", "Retract"} :
               Begin(c, op, <<m>>, "resolve") /\ UNCHANGED born
    <2>1. PICK m \in born, op \in {"Correct", "Supersede", "Retract"} :
               Begin(c, op, <<m>>, "resolve") /\ UNCHANGED born
        BY <1>4
    <2>2. op \in Operations /\ op \in Edits /\ op # "Merge" /\ op # "Repair"
        BY <2>1 DEF Begin, Edits
    <2>3. m \in Memories /\ Range(<<m>>) \subseteq born'
        <3>1. m \in Memories
            BY <1>1
        <3>2. Range(<<m>>) = {m}
            BY <1>2, <3>1
        <3> QED BY <2>1, <3>1, <3>2
    <2> QED BY ZenonT(30), <1>1, <1>2, <2>1, <2>2, <2>3, BeginStep
<1>5. CASE \E m, n \in born : m # n /\ Begin(c, "Merge", <<m, n>>, "resolve") /\ UNCHANGED born
    <2>1. PICK m \in born, n \in born : Begin(c, "Merge", <<m, n>>, "resolve") /\ UNCHANGED born
        BY <1>5
    <2>2. "Merge" \in Operations /\ "Merge" \in Edits
        BY <2>1 DEF Begin, Edits
    <2>3. <<m, n>> \in Seq(born) /\ Len(<<m, n>>) = 2
        BY SMTT(20), <1>1
    <2>4. <<m, n>> \in Seq(Memories) /\ Range(<<m, n>>) \subseteq born'
        <3>1. <<m, n>> \in Seq(Memories)
            BY SMTT(20), <1>1
        <3> QED BY <2>1, <2>3, <3>1, RangeFacts
    <2> QED BY ZenonT(30), <1>1, <2>1, <2>2, <2>3, <2>4, BeginStep
<1>6. CASE \E m \in born : Begin(c, "Purge", <<m>>, "history") /\ UNCHANGED born
    <2>1. PICK m \in born : Begin(c, "Purge", <<m>>, "history") /\ UNCHANGED born
        BY <1>6
    <2>2. "Purge" \in Operations
        BY <2>1 DEF Begin
    <2>3. m \in Memories /\ Range(<<m>>) \subseteq born'
        <3>1. m \in Memories
            BY <1>1
        <3>2. Range(<<m>>) = {m}
            BY <1>2, <3>1
        <3> QED BY <2>1, <3>1, <3>2
    <2> QED BY ZenonT(30), <1>1, <1>2, <2>1, <2>2, <2>3, BeginStep
<1>7. CASE Begin(c, "Repair", Listed(Memories), "scan") /\ UNCHANGED born
    <2>1. "Repair" \in Operations
        BY <1>7 DEF Begin
    <2>2. Listed(Memories) \in Seq(Memories)
        BY ListedType, MemoriesAssumption
    <2> QED BY ZenonT(30), <1>1, <1>7, <2>1, <2>2, BeginStep
<1> QED BY <1>3, <1>4, <1>5, <1>6, <1>7 DEF Ask

LEMMA UniqueStep ==
    ASSUME ChainInv, NEW c \in Callers, Unique(c)
    PROVE  ChainInv'
<1>1. /\ phase = "up" /\ call[c].pc = "unique"
      /\ UNCHANGED <<rows, nodes, envelopes, cache, phase, redo, purging, torn, born, given>>
      /\ Return(c) \/ Go(c, "intend")
    BY DEF Unique, Up, store, bounds, ghosts
<1>2. Typed /\ CallOK(c) /\ nodes \subseteq 1 .. given
    BY DEF ChainInv, Typed
<1>3. CASE Return(c)
    BY ZenonT(30), <1>1, <1>2, <1>3, QuietReturn, QuietStep
<1>4. CASE Go(c, "intend")
    <2>1. Moved(c) /\ call'[c].pc = "intend" /\ call'[c].k = call[c].k
        BY ZenonT(30), <1>1, <1>2, <1>4, GoFacts DEF Stages
    <2>2. Shape(call'[c])
        BY ZenonT(30), <1>1, <1>2, <2>1 DEF CallOK, Shape, Moved, ChainsOK, Writing, Stored
    <2>3. CallOK(c)'
        BY ZenonT(30), <1>1, <1>2, <2>1, <2>2 DEF CallOK, Moved, Stored
    <2> QED BY ZenonT(30), <1>1, <1>2, <2>1, <2>3, QuietMove, QuietStep
<1> QED BY <1>1, <1>3, <1>4


(* A resolved head joins the ones before it.                                *)
LEMMA AcceptFacts ==
    ASSUME ChainInv, NEW c \in Callers, call[c].pc \in {"resolve", "loaded"}, given' = given, born' = born,
           NEW head \in Revision, head \in Copies, head.logical = call[c].on[Len(call[c].prior) + 1], Accept(c, head)
    PROVE  /\ call' \in [Callers -> Call'] /\ \A d \in Callers \ {c} : call'[d] = call[d]
           /\ CallOK(c)' /\ Range(call'[c].prior) \cup Range(call'[c].next) \subseteq Copies
<1>1. Typed /\ CallOK(c) /\ call \in [Callers -> Call] /\ Call' = Call
    BY DEF ChainInv, Typed, Call, Revision
<1>2. CASE ~is_live(head)
    <2>1. Return(c)
        BY <1>2 DEF Accept
    <2> QED BY <1>1, <2>1, ReturnFacts, IdleFacts
<1>3. CASE is_live(head)
    <2> DEFINE at == IF Len(call[c].prior) + 1 = Len(call[c].on) THEN "intend" ELSE "resolve"
    <2>1. PICK x \in Call : x = call[c]
        BY <1>1
    <2>2. PICK q : q = Append(x.prior, head)
        OBVIOUS
    <2>3. PICK y : y = [x EXCEPT !.prior = q, !.pc = at, !.next = <<>>]
        OBVIOUS
    <2>4. x.prior \in Seq(Revision) /\ x.on \in Seq(Memories)
        BY DEF Call
    <2>5. /\ q \in Seq(Revision) /\ Len(q) = Len(x.prior) + 1 /\ q[Len(q)] = head
          /\ \A i \in 1 .. Len(x.prior) : q[i] = x.prior[i]
          /\ \A i \in 1 .. Len(q) : i \in 1 .. Len(x.prior) \/ i = Len(q)
          /\ Len(x.prior) \in Nat /\ Len(x.on) \in Nat /\ <<>> \in Seq(Revision)
        BY SMTT(20), <2>2, <2>4
    <2>6. y.prior = q /\ y.pc = at /\ y.next = <<>> /\ y.op = x.op /\ y.on = x.on /\ y.k = x.k
        BY ONLY <2>3, x \in Call, SMTT(20) DEF Call
    <2>7. y \in Call
        <3>1. at \in Stages
            BY DEF Stages
        <3> HIDE DEF at
        <3> QED BY <2>3, <2>5, <3>1 DEF Call
    <2>8. call' = [call EXCEPT ![c] = y]
        BY ZenonT(30), <1>1, <1>3, <2>1, <2>2, <2>3 DEF Accept
    <2>9. call'[c] = y /\ call' \in [Callers -> Call'] /\ \A d \in Callers \ {c} : call'[d] = call[d]
        BY ZenonT(30), <1>1, <2>7, <2>8
    <2>10. x.op # "Create" /\ ChainsOK(x) /\ Len(x.prior) < Len(x.on) /\ x.k = 1 /\ x.op \in Edits
        BY ZenonT(30), <1>1, <2>1 DEF CallOK, Shape, ChainsOK
    <2>11. ChainsOK(y)
        <3>1. Len(q) <= Len(x.on)
            BY SMTT(20), <2>5, <2>10
        <3>2. \A i \in 1 .. Len(q) : q[i].logical = x.on[i] /\ is_live(q[i])
            <4>1. q[Len(q)].logical = x.on[Len(q)]
                BY ZenonT(30), <2>1, <2>5
            <4> QED BY ZenonT(30), <1>3, <2>5, <2>10, <4>1 DEF ChainsOK
        <3> QED BY ZenonT(30), <2>6, <2>10, <3>1, <3>2 DEF ChainsOK
    <2>12. at = "resolve" => Len(q) < Len(x.on)
        BY SMTT(20), <2>1, <2>5, <2>10
    <2>13. at = "intend" => Len(q) = Len(x.on)
        BY <2>1, <2>5
    <2>14. at \in {"intend", "resolve"}
        OBVIOUS
    <2> HIDE DEF at
    <2>15. Shape(y)
        BY ZenonT(30), <2>6, <2>10, <2>11, <2>12, <2>13, <2>14 DEF Shape, Writing, Stored
    <2>16. CallOK(c)'
        BY ZenonT(30), <1>1, <2>1, <2>6, <2>9, <2>14, <2>15 DEF CallOK, Stored
    <2>17. Range(q) \subseteq Copies /\ Range(<<>>) = {}
        <3>1. Range(x.prior) \subseteq Copies
            BY <1>1, <2>1, CopiesFacts
        <3>2. \A i \in 1 .. Len(x.prior) : x.prior[i] \in Copies
            BY <2>4, <3>1, RangeFacts
        <3>3. \A i \in 1 .. Len(q) : q[i] \in Copies
            BY <2>5, <3>2
        <3>4. Range(<<>>) = {}
            BY SMT DEF Range
        <3>5. \A r \in Range(q) : \E i \in 1 .. Len(q) : q[i] = r
            BY <2>5, RangeFacts
        <3> QED BY <3>3, <3>4, <3>5
    <2> QED BY <2>6, <2>9, <2>16, <2>17
<1> QED BY <1>2, <1>3

LEMMA ResolveStep ==
    ASSUME ChainInv, NEW c \in Callers, Resolve(c)
    PROVE  ChainInv'
<1> DEFINE m == call[c].on[Len(call[c].prior) + 1]
<1>1. /\ phase = "up" /\ call[c].pc = "resolve"
      /\ UNCHANGED <<rows, nodes, envelopes, cache, phase, redo, purging, torn, born, given>>
    BY DEF Resolve, Up, store, bounds, ghosts
<1>2. Typed /\ CallOK(c) /\ nodes \subseteq 1 .. given /\ call \in [Callers -> Call] /\ Call' = Call
    BY <1>1 DEF ChainInv, Typed, Call, Revision
<1>3. /\ call[c].op # "Create" /\ ChainsOK(call[c]) /\ Len(call[c].prior) < Len(call[c].on) /\ call[c].k = 1
    BY <1>1, <1>2 DEF CallOK, Shape
<1>4. m \in Memories
    <2>1. call[c].prior \in Seq(Revision) /\ call[c].on \in Seq(Memories)
        BY <1>2 DEF Call
    <2> QED BY SMTT(20), <1>3, <2>1
<1> HIDE DEF m
<1>5. CASE Return(c)
    BY ZenonT(30), <1>1, <1>2, <1>5, QuietReturn, QuietStep
<1>6. CASE cache[m] # None /\ Accept(c, cache[m])
    <2>1. cache[m] \in Copies /\ cache[m] \in Revision /\ cache[m].logical = m
        BY ZenonT(30), <1>2, <1>4, <1>6, CopiesFacts DEF Typed
    <2>2. /\ call' \in [Callers -> Call'] /\ \A d \in Callers \ {c} : call'[d] = call[d]
          /\ CallOK(c)' /\ Range(call'[c].prior) \cup Range(call'[c].next) \subseteq Copies
        BY ZenonT(30), <1>1, <1>6, <2>1, AcceptFacts DEF m
    <2>3. Quiet(c)
        BY <1>1, <1>2, <2>2 DEF Quiet, Typed
    <2> QED BY ZenonT(30), <1>1, <1>2, <2>2, <2>3, QuietStep
<1>7. CASE Of(m) # {} /\ call' = [call EXCEPT ![c].next = <<HeadOf(Of(m))>>, ![c].pc = "loaded"]
    <2>1. HeadOf(Of(m)) \in Of(m)
        <3>1. Of(m) \subseteq Revision
            BY <1>2 DEF Of, Typed
        <3> QED BY <1>2, <1>7, <3>1, HeadFacts DEF Typed
    <2>2. PICK h : h = HeadOf(Of(m))
        OBVIOUS
    <2>3. h \in rows /\ h.logical = m /\ h \in Revision /\ h \in Copies
        BY ZenonT(30), <1>2, <2>1, <2>2, CopiesFacts DEF Of, Typed
    <2>4. PICK x \in Call : x = call[c]
        BY <1>2
    <2>5. PICK y : y = [x EXCEPT !.next = <<h>>, !.pc = "loaded"]
        OBVIOUS
    <2>6. /\ y.next = <<h>> /\ y.pc = "loaded" /\ y.op = x.op /\ y.on = x.on /\ y.k = x.k
          /\ y.prior = x.prior
        BY ONLY <2>5, x \in Call, SMTT(20) DEF Call
    <2>7. <<h>> \in Seq(Revision) /\ Len(<<h>>) = 1 /\ <<h>>[1] = h
        BY SMTT(20), <2>3
    <2>8. y \in Call
        BY <2>5, <2>7 DEF Call, Stages
    <2>9. call' = [call EXCEPT ![c] = y]
        BY ZenonT(30), <1>2, <1>7, <2>2, <2>4, <2>5
    <2>10. call'[c] = y /\ call' \in [Callers -> Call'] /\ \A d \in Callers \ {c} : call'[d] = call[d]
        BY <1>2, <2>8, <2>9
    <2>11. ChainsOK(y)
        BY <1>3, <2>4, <2>6 DEF ChainsOK
    <2>12. Shape(y)
        BY ZenonT(30), <1>3, <2>3, <2>4, <2>6, <2>7, <2>11 DEF Shape, Writing, Stored, m
    <2>13. CallOK(c)'
        BY ZenonT(30), <1>1, <1>2, <2>4, <2>6, <2>10, <2>12 DEF CallOK, Stored
    <2>14. Range(y.prior) \cup Range(y.next) \subseteq Copies
        <3>1. Range(x.prior) \subseteq Copies
            BY <1>2, <2>4, CopiesFacts
        <3>2. \A i \in 1 .. 1 : i = 1
            BY SMT
        <3>3. \A r \in Range(<<h>>) : \E i \in 1 .. Len(<<h>>) : <<h>>[i] = r
            BY <2>7, RangeFacts
        <3>4. Range(<<h>>) \subseteq {h}
            BY <2>7, <3>2, <3>3
        <3> QED BY <2>3, <2>6, <3>1, <3>4
    <2>15. Quiet(c)
        BY <1>1, <1>2, <2>10 DEF Quiet, Typed
    <2> QED BY ZenonT(30), <1>1, <1>2, <2>10, <2>13, <2>14, <2>15, QuietStep
<1> QED BY <1>5, <1>6, <1>7 DEF Resolve, m

LEMMA LoadedStep ==
    ASSUME ChainInv, NEW c \in Callers, Loaded(c)
    PROVE  ChainInv'
<1>1. /\ phase = "up" /\ call[c].pc = "loaded"
      /\ UNCHANGED <<rows, nodes, envelopes, phase, redo, purging, torn, born, given>>
      /\ cache' = Cached(cache, call[c].next[1]) /\ Accept(c, call[c].next[1])
    BY DEF Loaded, Up, store, bounds, ghosts
<1>2. /\ Typed /\ CallOK(c) /\ nodes \subseteq 1 .. given /\ call \in [Callers -> Call] /\ given \in Nat
      /\ cache \in [Memories -> Revision \cup {None}]
    BY DEF ChainInv, Typed
<1>3. Len(call[c].next) = 1 /\ call[c].next[1].logical = call[c].on[Len(call[c].prior) + 1]
    BY <1>1, <1>2 DEF CallOK, Shape
<1>4. PICK h : h = call[c].next[1]
    OBVIOUS
<1>5. h \in Copies /\ h \in Revision
    <2>1. call[c].next \in Seq(Revision) /\ 1 \in 1 .. 1
        BY SMT, <1>2 DEF Call
    <2>2. h \in Range(call[c].next) /\ Range(call[c].next) \subseteq Revision
        BY <1>3, <1>4, <2>1, RangeFacts
    <2> QED BY <1>2, <2>2, CopiesFacts
<1>6. /\ call' \in [Callers -> Call'] /\ \A d \in Callers \ {c} : call'[d] = call[d]
      /\ CallOK(c)' /\ Range(call'[c].prior) \cup Range(call'[c].next) \subseteq Copies
    BY <1>1, <1>3, <1>4, <1>5, AcceptFacts
<1>7. Quiet(c)
    BY <1>1, <1>2, <1>6 DEF Quiet, Typed
<1>8. /\ cache' \in [Memories -> Revision \cup {None}]
      /\ \A m \in Memories : cache'[m] # None => cache'[m] \in Copies /\ cache'[m].logical = m
    <2> DEFINE S == {h}
    <2>1. cache' = Cached(cache, h) /\ h \in S /\ S \subseteq Revision
        BY <1>1, <1>4, <1>5
    <2> HIDE DEF S
    <2>2. \A r \in S : /\ Cached(cache, r) \in [Memories -> Revision \cup {None}]
                       /\ \A m \in Memories : \/ Cached(cache, r)[m] = cache[m]
                                              \/ Cached(cache, r)[m] = r /\ r.logical = m
        BY <1>2, <2>1, CachedFacts
    <2>3. \A m \in Memories : cache[m] # None => cache[m] \in Copies /\ cache[m].logical = m
        BY <1>2, CopiesFacts DEF Typed
    <2>4. /\ cache' \in [Memories -> Revision \cup {None}]
          /\ \A m \in Memories : cache'[m] = cache[m] \/ (cache'[m] = h /\ h.logical = m)
        BY <2>1, <2>2
    <2> QED BY <1>5, <2>3, <2>4
<1> QED BY ZenonT(30), <1>1, <1>2, <1>6, <1>7, <1>8, QuietStep


LEMMA AddNodeStep ==
    ASSUME ChainInv, NEW c \in Callers, AddNode(c)
    PROVE  ChainInv'
<1>1. /\ phase = "up" /\ call[c].pc = "node"
      /\ UNCHANGED <<rows, envelopes, cache, phase, redo, purging, torn, born, given>>
    BY DEF AddNode, Up, ghosts
<1>2. /\ Typed /\ CallOK(c) /\ nodes \subseteq 1 .. given /\ call \in [Callers -> Call]
    BY DEF ChainInv, Typed
<1>3. /\ call[c].k \in 1 .. Len(call[c].next) /\ call[c].op # "Purge" /\ ChainsOK(call[c]) /\ NextOK(call[c])
    BY <1>1, <1>2 DEF CallOK, Shape, Writing
<1>4. call[c].next \in Seq(Revision) /\ call[c].prior \in Seq(Revision) /\ call[c].k \in Nat /\ call[c].ok \in BOOLEAN
    BY <1>2 DEF Call
<1>5. call[c].next[call[c].k].id \in 1 .. given
    <2>1. call[c].next[call[c].k] \in Revision
        BY SMTT(20), <1>3, <1>4
    <2> QED BY <2>1 DEF Revision
<1>6. nodes' \subseteq 1 .. given
    BY <1>2, <1>5 DEF AddNode
<1>7. CASE call' = [call EXCEPT ![c].k = @ + 1] /\ call[c].k < Len(call[c].next)
    <2>1. PICK n \in Nat : n = call[c].k + 1
        BY SMTT(20), <1>4
    <2>2. n \in 1 .. Len(call[c].next)
        BY SMTT(20), <1>3, <1>4, <1>7, <2>1
    <2>3. "node" \in Stages /\ "node" \in Writing \ {"finish"} /\ "node" \notin Stored
        BY DEF Stages, Writing, Stored
    <2>4. call' = [call EXCEPT ![c] = [call[c] EXCEPT !.pc = "node", !.k = n, !.ok = call[c].ok]]
        <3>1. [call[c] EXCEPT !.k = n] = [call[c] EXCEPT !.pc = "node", !.k = n, !.ok = call[c].ok]
            BY <1>1, <1>2 DEF Call
        <3> QED BY <1>2, <1>7, <2>1, <3>1
    <2>5. Moved(c) /\ call'[c].pc = "node" /\ call'[c].k = n
        BY ZenonT(30), <1>1, <1>2, <1>4, <2>1, <2>3, <2>4, MoveFacts
    <2>6. Quiet(c) /\ Range(call'[c].prior) \cup Range(call'[c].next) \subseteq Copies
        BY <1>1, <2>5, QuietMove
    <2>7. CallOK(c)'
        BY <1>1, <2>2, <2>3, <2>5, <2>6, QuietSteady, WritingStays
    <2> QED BY ZenonT(30), <1>1, <1>6, <2>6, <2>7, QuietStep
<1>8. CASE call' = [call EXCEPT ![c].pc = "append", ![c].k = 1]
    <2>1. 1 \in Nat /\ "append" \in Stages /\ "node" \in Writing \ {"finish"} /\ "append" \in Writing /\ "append" \notin Stored
        BY DEF Stages, Writing, Stored
    <2>2. call[c].prior # <<>> => 1 \in 1 .. Len(call[c].prior)
        BY SMTT(20), <1>4
    <2>3. call' = [call EXCEPT ![c] = [call[c] EXCEPT !.pc = "append", !.k = 1, !.ok = call[c].ok]]
        <3>1. [call[c] EXCEPT !.pc = "append", !.k = 1] = [call[c] EXCEPT !.pc = "append", !.k = 1, !.ok = call[c].ok]
            BY <1>2 DEF Call
        <3> QED BY <1>2, <1>8, <3>1
    <2>4. Moved(c) /\ call'[c].pc = "append" /\ call'[c].k = 1
        BY ZenonT(30), <1>1, <1>2, <1>4, <2>1, <2>3, MoveFacts
    <2>5. Quiet(c) /\ Range(call'[c].prior) \cup Range(call'[c].next) \subseteq Copies
        BY <1>1, <2>4, QuietMove
    <2>6. CallOK(c)'
        BY <1>1, <2>1, <2>2, <2>4, <2>5, QuietSteady, WritingStays
    <2> QED BY <1>1, <1>6, <2>5, <2>6, QuietStep
<1>9. ASSUME NEW at \in {"fail", "undo"}, Go(c, at) PROVE ChainInv'
    <2>1. at \in Stages /\ "node" \in Writing \ {"finish"} /\ at \in Writing /\ at \notin Stored
        BY DEF Stages, Writing, Stored
    <2>2. Moved(c) /\ call'[c].pc = at
        BY <1>1, <1>2, <1>9, <2>1, GoFacts
    <2>3. Quiet(c) /\ Range(call'[c].prior) \cup Range(call'[c].next) \subseteq Copies
        BY <1>1, <2>2, QuietMove
    <2>4. CallOK(c)'
        BY <1>1, <2>1, <2>2, <2>3, QuietSteady, WritingStays
    <2> QED BY <1>1, <1>6, <2>3, <2>4, QuietStep
<1> QED BY <1>7, <1>8, <1>9 DEF AddNode

LEMMA UndoStep ==
    ASSUME ChainInv, NEW c \in Callers, Undo(c)
    PROVE  ChainInv'
<1>1. /\ phase = "up" /\ call[c].pc = "undo"
      /\ UNCHANGED <<rows, envelopes, cache, phase, redo, purging, torn, born, given>>
      /\ nodes' \subseteq nodes /\ (Go(c, "fail") \/ Return(c))
    BY DEF Undo, Up, ghosts
<1>2. Typed /\ nodes' \subseteq 1 .. given
    BY <1>1 DEF ChainInv, Typed
<1>3. CASE Return(c)
    BY ZenonT(30), <1>1, <1>2, <1>3, QuietReturn, QuietStep
<1>4. CASE Go(c, "fail")
    <2>1. "fail" \in Stages /\ "undo" \in Writing \ {"finish"} /\ "fail" \in Writing /\ "fail" \notin Stored
        BY DEF Stages, Writing, Stored
    <2>2. Moved(c) /\ call'[c].pc = "fail"
        BY <1>1, <1>2, <1>4, <2>1, GoFacts
    <2>3. Quiet(c) /\ Range(call'[c].prior) \cup Range(call'[c].next) \subseteq Copies
        BY <1>1, <2>2, QuietMove
    <2>4. CallOK(c)'
        BY <1>1, <2>1, <2>2, <2>3, QuietSteady, WritingStays
    <2> QED BY <1>1, <1>2, <2>3, <2>4, QuietStep
<1> QED BY <1>1, <1>3, <1>4

(* The envelope of a call is marked, or it is not, and the call returns.    *)
LEMMA FailFinishStep ==
    ASSUME ChainInv, NEW c \in Callers, Fail(c) \/ Finish(c)
    PROVE  ChainInv'
<1>1. /\ phase = "up" /\ call[c].pc # "rewrite" /\ Return(c)
      /\ UNCHANGED <<rows, nodes, cache, phase, redo, purging, torn, born, given>>
      /\ envelopes' = envelopes \/ Set(call[c].env, "failed") \/ Set(call[c].env, "applied")
    BY DEF Fail, Finish, Up, ghosts
<1>2. Typed /\ nodes' \subseteq 1 .. given
    BY <1>1 DEF ChainInv, Typed
<1>3. call[c].env \in Nat
    BY <1>2 DEF Typed, Call
<1>4. envelopes' = envelopes \/ \E e \in Nat, s \in {"applied", "failed"} : Set(e, s)
    BY <1>1, <1>3
<1> QED BY <1>1, <1>2, <1>4, QuietReturn, QuietStep

LEMMA AuditStep ==
    ASSUME ChainInv, NEW c \in Callers, Audit(c)
    PROVE  ChainInv'
<1>1. /\ phase = "up" /\ call[c].pc = "audit"
      /\ UNCHANGED <<rows, nodes, envelopes, cache, phase, redo, purging, torn, born, given>>
      /\ NextPrior(c, "close", "cache", TRUE) \/ Return(c)
    BY DEF Audit, Up, ghosts, store
<1>2. Typed /\ nodes' \subseteq 1 .. given /\ CallOK(c)
    BY <1>1 DEF ChainInv, Typed
<1>3. CASE Return(c)
    BY ZenonT(30), <1>1, <1>2, <1>3, QuietReturn, QuietStep
<1>4. CASE NextPrior(c, "close", "cache", TRUE)
    <2>1. "close" \in Stages /\ "cache" \in Stages /\ "audit" \in Writing \ {"finish"}
          /\ "close" \in Writing /\ "cache" \in Writing /\ "audit" \in Stored
        BY DEF Stages, Writing, Stored
    <2>2. /\ Moved(c) /\ call'[c].pc = (IF AtLast(c) THEN "cache" ELSE "close")
          /\ call'[c].k = (IF AtLast(c) THEN 1 ELSE call[c].k + 1)
        BY ZenonT(30), <1>1, <1>2, <1>4, <2>1, NextPriorFacts
    <2>3. call[c].prior # <<>> /\ call[c].k \in 1 .. Len(call[c].prior)
        BY ZenonT(30), <1>1, <1>2, <2>1 DEF CallOK, Shape
    <2>4. call'[c].k \in 1 .. Len(call[c].prior)
        <3>1. call[c].prior \in Seq(Revision)
            BY <1>2 DEF Typed, Call
        <3> QED BY SMTT(20), <2>2, <2>3, <3>1 DEF AtLast
    <2>5. Quiet(c) /\ Range(call'[c].prior) \cup Range(call'[c].next) \subseteq Copies
        BY <1>1, <2>2, QuietMove
    <2>6. CallOK(c)'
        BY ZenonT(30), <1>1, <2>1, <2>2, <2>3, <2>4, <2>5, QuietSteady, WritingStays
    <2> QED BY ZenonT(30), <1>1, <1>2, <2>5, <2>6, QuietStep
<1> QED BY <1>1, <1>3, <1>4

LEMMA DetachStep ==
    ASSUME ChainInv, NEW c \in Callers, Detach(c)
    PROVE  ChainInv'
<1>1. /\ phase = "up" /\ call[c].pc = "remove"
      /\ UNCHANGED <<rows, envelopes, cache, phase, redo, purging, torn, born, given>>
      /\ nodes' \subseteq nodes /\ \E b \in BOOLEAN : NextPrior(c, "remove", "finish", b)
    BY DEF Detach, Up, ghosts
<1>2. Typed /\ nodes' \subseteq 1 .. given /\ CallOK(c)
    BY <1>1 DEF ChainInv, Typed
<1>3. PICK b \in BOOLEAN : NextPrior(c, "remove", "finish", b)
    BY <1>1
<1>4. "remove" \in Stages /\ "finish" \in Stages /\ "remove" \in Writing \ {"finish"}
      /\ "finish" \in Writing /\ "remove" \in Stored /\ "finish" \notin Stored
    BY DEF Stages, Writing, Stored
<1>5. /\ Moved(c) /\ call'[c].pc = (IF AtLast(c) THEN "finish" ELSE "remove")
      /\ call'[c].k = (IF AtLast(c) THEN 1 ELSE call[c].k + 1)
    BY ZenonT(30), <1>1, <1>2, <1>3, <1>4, NextPriorFacts
<1>6. call[c].prior # <<>> /\ call[c].k \in 1 .. Len(call[c].prior)
    BY <1>1, <1>2, <1>4 DEF CallOK, Shape
<1>7. call'[c].k \in 1 .. Len(call[c].prior)
    <2>1. call[c].prior \in Seq(Revision)
        BY <1>2 DEF Typed, Call
    <2> QED BY SMT, <1>5, <1>6, <2>1 DEF AtLast
<1>8. Quiet(c) /\ Range(call'[c].prior) \cup Range(call'[c].next) \subseteq Copies
    BY <1>1, <1>5, QuietMove
<1>9. CallOK(c)'
    BY ZenonT(30), <1>1, <1>4, <1>5, <1>6, <1>7, <1>8, QuietSteady, WritingStays
<1> QED BY ZenonT(30), <1>1, <1>2, <1>8, <1>9, QuietStep


LEMMA CacheStep ==
    ASSUME ChainInv, NEW c \in Callers, Cache(c)
    PROVE  ChainInv'
<1> DEFINE at == IF call[c].prior = <<>> THEN "finish" ELSE "remove"
<1>1. /\ phase = "up" /\ call[c].pc = "cache" /\ Go(c, at)
      /\ UNCHANGED <<rows, nodes, envelopes, phase, redo, purging, torn, born, given>>
      /\ cache' = CachedAll(cache, Range(call[c].next))
    BY DEF Cache, Up, ghosts, store, bounds
<1>2. /\ Typed /\ nodes' \subseteq 1 .. given /\ CallOK(c) /\ given \in Nat
      /\ cache \in [Memories -> Revision \cup {None}]
    BY <1>1 DEF ChainInv, Typed
<1>3. /\ at \in Stages /\ at \in Writing /\ at \in {"finish", "remove"} /\ "cache" \in Writing \ {"finish"}
      /\ "cache" \in Stored /\ "finish" \notin Stored
      /\ (at = "remove" => call[c].prior # <<>>)
    BY DEF Stages, Writing, Stored
<1> HIDE DEF at
<1>4. Moved(c) /\ call'[c].pc = at /\ call'[c].k = call[c].k
    BY ZenonT(30), <1>1, <1>2, <1>3, GoFacts
<1>5. call[c].prior # <<>> => call[c].k \in 1 .. Len(call[c].prior)
    BY ZenonT(30), <1>1, <1>2, <1>3 DEF CallOK, Shape
<1>6. Quiet(c) /\ Range(call'[c].prior) \cup Range(call'[c].next) \subseteq Copies
    BY <1>1, <1>4, QuietMove
<1>7. CallOK(c)'
    BY ZenonT(30), <1>1, <1>3, <1>4, <1>5, <1>6, QuietSteady, WritingStays
<1>8. /\ cache' \in [Memories -> Revision \cup {None}]
      /\ \A m \in Memories : cache'[m] # None => cache'[m] \in Copies /\ cache'[m].logical = m
    <2>1. PICK S : S = Range(call[c].next)
        OBVIOUS
    <2>2. S \subseteq Copies /\ S \subseteq Revision
        BY <1>2, <2>1, CopiesFacts
    <2>3. /\ cache' \in [Memories -> Revision \cup {None}]
          /\ \A m \in Memories : cache'[m] = cache[m] \/ (cache'[m] \in S /\ cache'[m].logical = m)
        <3>1. /\ CachedAll(cache, S) \in [Memories -> Revision \cup {None}]
              /\ \A m \in Memories : \/ CachedAll(cache, S)[m] = cache[m]
                                     \/ CachedAll(cache, S)[m] \in S /\ CachedAll(cache, S)[m].logical = m
            BY <1>2, <2>2, CachedFacts, SMTT(20)
        <3>2. cache' = CachedAll(cache, S)
            BY <1>1, <2>1
        <3> QED BY <3>1, <3>2
    <2>4. \A m \in Memories : cache[m] # None => cache[m] \in Copies /\ cache[m].logical = m
        BY <1>2, CopiesFacts DEF Typed
    <2> QED BY <2>2, <2>3, <2>4
<1> QED BY ZenonT(30), <1>1, <1>2, <1>6, <1>7, <1>8, QuietStep

LEMMA UnlinkStep ==
    ASSUME ChainInv, NEW c \in Callers, Unlink(c)
    PROVE  ChainInv'
<1>1. /\ phase = "up" /\ call[c].pc = "unlink" /\ nodes' \subseteq nodes
      /\ UNCHANGED <<rows, envelopes, cache, phase, redo, purging, torn, born, given>>
      /\ Go(c, "finish") \/ call' = [call EXCEPT ![c].pc = "finish", ![c].ok = FALSE]
    BY DEF Unlink, Up, ghosts
<1>2. Typed /\ nodes' \subseteq 1 .. given /\ CallOK(c) /\ call \in [Callers -> Call]
    BY <1>1 DEF ChainInv, Typed
<1>3. Moved(c) /\ call'[c].pc = "finish"
    <2>1. "finish" \in Stages /\ FALSE \in BOOLEAN
        BY DEF Stages
    <2>2. CASE Go(c, "finish")
        BY ZenonT(30), <1>1, <1>2, <2>1, <2>2, GoFacts
    <2>3. CASE call' = [call EXCEPT ![c].pc = "finish", ![c].ok = FALSE]
        <3>1. call[c].k \in Nat
            BY <1>2 DEF Call
        <3>2. [call[c] EXCEPT !.pc = "finish", !.ok = FALSE]
                  = [call[c] EXCEPT !.pc = "finish", !.k = call[c].k, !.ok = FALSE]
            BY <1>2 DEF Call
        <3>3. call' = [call EXCEPT ![c] = [call[c] EXCEPT !.pc = "finish", !.k = call[c].k, !.ok = FALSE]]
            BY <1>2, <2>3, <3>2
        <3> QED BY ZenonT(30), <1>1, <1>2, <2>1, <3>1, <3>3, MoveFacts
    <2> QED BY <1>1, <2>2, <2>3
<1>4. Quiet(c) /\ Range(call'[c].prior) \cup Range(call'[c].next) \subseteq Copies
    BY <1>1, <1>3, QuietMove
<1>5. CallOK(c)'
    <2>1. call'[c].op = "Purge"
        BY ZenonT(30), <1>1, <1>2, <1>3 DEF CallOK, Shape, Moved
    <2>2. Shape(call'[c])
        BY <1>3, <2>1 DEF Shape, Writing, Stored
    <2> QED BY ZenonT(30), <1>1, <1>2, <1>3, <2>2 DEF CallOK, Moved, Stored
<1> QED BY ZenonT(30), <1>1, <1>2, <1>4, <1>5, QuietStep

(* The heads a repair reads                                                 *)
LEMMA ScanFacts ==
    ASSUME Typed, NEW M, M \subseteq Memories, \A m \in M : Of(m) # {}
    PROVE  /\ {HeadOf(Of(m)) : m \in M} \subseteq rows
           /\ Listed({HeadOf(Of(m)) : m \in M}) \in Seq({HeadOf(Of(m)) : m \in M})
<1> DEFINE H == {HeadOf(Of(m)) : m \in M}
           f == [m \in M |-> HeadOf(Of(m))]
<1>1. \A m \in M : HeadOf(Of(m)) \in rows
    <2>1. \A m \in M : Of(m) \subseteq rows /\ Of(m) \subseteq Revision
        BY DEF Typed, Of
    <2>2. given \in Nat
        BY DEF Typed
    <2> QED BY <2>1, <2>2, HeadFacts
<1>2. IsFiniteSet(M)
    BY MemoriesAssumption, FS_Subset
<1>3. f \in Surjection(M, H)
    <2>1. f \in [M -> H]
        OBVIOUS
    <2>2. \A h \in H : \E m \in M : f[m] = h
        OBVIOUS
    <2> QED BY <2>1, <2>2 DEF Surjection
<1>4. IsFiniteSet(H)
    BY <1>2, <1>3, FS_Surjection
<1>5. Listed(H) \in Seq(H)
    BY <1>4, ListedType
<1> QED BY <1>1, <1>5

LEMMA ScanStep ==
    ASSUME ChainInv, NEW c \in Callers, Scan(c)
    PROVE  ChainInv'
<1> DEFINE M == {n \in Memories : Of(n) # {} /\ ChainIsClean(Of(n))}
<1>1. PICK H : H = {HeadOf(Of(m)) : m \in M}
    OBVIOUS
<1>2. /\ phase = "up" /\ call[c].pc = "scan"
      /\ UNCHANGED <<rows, nodes, envelopes, cache, phase, redo, purging, torn, born, given>>
      /\ call' = [call EXCEPT ![c].pc = "replace", ![c].next = Listed(H)]
    BY ZenonT(30), <1>1 DEF Scan, Up, store, ghosts, bounds
<1>3. Typed /\ nodes' \subseteq 1 .. given /\ CallOK(c) /\ call \in [Callers -> Call] /\ Call' = Call
    BY <1>2 DEF ChainInv, Typed, Call, Revision
<1>4. H \subseteq rows /\ Listed(H) \in Seq(H)
    <2>1. M \subseteq Memories /\ \A m \in M : Of(m) # {}
        OBVIOUS
    <2> HIDE DEF M
    <2> QED BY <1>1, <1>3, <2>1, ScanFacts
<1>5. PICK q : q = Listed(H)
    OBVIOUS
<1>6. H \subseteq Copies /\ H \subseteq Revision
    BY <1>3, <1>4, CopiesFacts
<1>7. q \in Seq(Revision) /\ Range(q) \subseteq Copies
    <2>1. q \in Seq(Revision)
        BY SMTT(20), <1>4, <1>5, <1>6
    <2>2. Range(q) \subseteq H
        BY <1>4, <1>5, RangeFacts
    <2> QED BY <1>6, <2>1, <2>2
<1>8. PICK x \in Call : x = call[c]
    BY <1>3
<1>9. PICK y : y = [x EXCEPT !.pc = "replace", !.next = q]
    OBVIOUS
<1>10. y.pc = "replace" /\ y.next = q /\ y.prior = x.prior /\ y.op = x.op /\ y.on = x.on
    BY ONLY <1>9, x \in Call, SMTT(20) DEF Call
<1>11. y \in Call
    BY <1>7, <1>9 DEF Call, Stages
<1>12. call' = [call EXCEPT ![c] = y]
    BY ZenonT(30), <1>2, <1>3, <1>5, <1>8, <1>9
<1>13. call'[c] = y /\ call' \in [Callers -> Call'] /\ \A d \in Callers \ {c} : call'[d] = call[d]
    BY <1>3, <1>11, <1>12
<1>14. Shape(y)
    BY <1>10 DEF Shape, Writing, Stored
<1>15. CallOK(c)'
    BY ZenonT(30), <1>2, <1>3, <1>8, <1>10, <1>13, <1>14 DEF CallOK, Stored
<1>16. Quiet(c)
    BY <1>2, <1>3, <1>13 DEF Quiet, Typed
<1>17. Range(call'[c].prior) \cup Range(call'[c].next) \subseteq Copies
    BY ZenonT(30), <1>3, <1>7, <1>8, <1>10, <1>13, CopiesFacts
<1> QED BY ZenonT(30), <1>2, <1>3, <1>15, <1>16, <1>17, QuietStep

LEMMA ReplaceStep ==
    ASSUME ChainInv, NEW c \in Callers, Replace(c)
    PROVE  ChainInv'
<1>1. /\ phase = "up" /\ call[c].pc = "replace" /\ Return(c)
      /\ UNCHANGED <<rows, nodes, envelopes, phase, redo, purging, torn, born, given>>
      /\ cache' = CachedAll(NoHeads, Range(call[c].next))
    BY DEF Replace, Up, ghosts, store, bounds
<1>2. Typed /\ nodes' \subseteq 1 .. given /\ given \in Nat
    BY <1>1 DEF ChainInv, Typed
<1>3. /\ cache' \in [Memories -> Revision \cup {None}]
      /\ \A m \in Memories : cache'[m] # None => cache'[m] \in Copies /\ cache'[m].logical = m
    <2>1. PICK S : S = Range(call[c].next)
        OBVIOUS
    <2>2. S \subseteq Copies /\ S \subseteq Revision
        BY <1>2, <2>1, CopiesFacts
    <2>3. NoHeads \in [Memories -> Revision \cup {None}] /\ \A m \in Memories : NoHeads[m] = None
        BY DEF NoHeads
    <2>4. /\ cache' \in [Memories -> Revision \cup {None}]
          /\ \A m \in Memories : cache'[m] = NoHeads[m] \/ (cache'[m] \in S /\ cache'[m].logical = m)
        <3>1. /\ CachedAll(NoHeads, S) \in [Memories -> Revision \cup {None}]
              /\ \A m \in Memories : \/ CachedAll(NoHeads, S)[m] = NoHeads[m]
                                     \/ CachedAll(NoHeads, S)[m] \in S /\ CachedAll(NoHeads, S)[m].logical = m
            BY <1>2, <2>2, <2>3, CachedFacts, SMTT(20)
        <3>2. cache' = CachedAll(NoHeads, S)
            BY <1>1, <2>1
        <3> QED BY <3>1, <3>2
    <2> QED BY <2>2, <2>3, <2>4
<1> QED BY ZenonT(30), <1>1, <1>2, <1>3, QuietReturn, QuietStep


(* A step of c that changes the stored rows.                                *)
LEMMA RowStep ==
    ASSUME ChainInv, NEW c \in Callers, phase = "up", UNCHANGED <<phase, redo, given, envelopes, nodes, born, purging>>,
           call' \in [Callers -> Call'], \A d \in Callers \ {c} : call'[d] = call[d],
           Range(call'[c].prior) \cup Range(call'[c].next) \subseteq Copies,
           Steady, \A r \in rows' : Derived(r), RowsOK', CallOK(c)', torn' \subseteq born,
           cache' = cache \/ \E m \in Memories : cache' = Evicted(m)
    PROVE  ChainInv'
<1>1. /\ Typed /\ nodes' \subseteq 1 .. given /\ redo.todo \cup redo.held \subseteq Copies
      /\ cache \in [Memories -> Revision \cup {None}]
      /\ \A m \in Memories : cache[m] = None \/ cache[m].logical = m
      /\ born \subseteq Memories /\ purging \subseteq born
    BY CopiesFacts DEF ChainInv, Typed
<1>2. /\ cache' \in [Memories -> Revision \cup {None}]
      /\ \A m \in Memories : cache'[m] = None \/ cache'[m] = cache[m]
    BY <1>1 DEF Evicted
<1>3. \A m \in Memories : cache'[m] # None => cache'[m] \in Copies
    BY <1>1, <1>2, CopiesFacts
<1>4. \A d \in Callers : Range(call'[d].prior) \cup Range(call'[d].next) \subseteq Copies
    BY <1>1, CopiesFacts
<1>5. AllDerived
    BY <1>1, <1>3, <1>4, OldCopies DEF AllDerived
<1>6. envelopes' \in Seq(MutationEnvelope') /\ \A e \in 1 .. Len(envelopes') : EnvelopeOK(e)'
    BY <1>5, EnvelopesStay
<1>7. \A m \in Memories : cache'[m] = None \/ cache'[m].logical = m
    BY <1>1, <1>2
<1> QED BY ZenonT(30), <1>1, <1>2, <1>5, <1>6, <1>7, CallerStep

LEMMA AppendRowsStep ==
    ASSUME ChainInv, NEW c \in Callers, AppendRows(c)
    PROVE  ChainInv'
<1>1. /\ phase = "up" /\ call[c].pc = "append"
      /\ UNCHANGED <<nodes, envelopes, cache, phase, redo, purging, torn, born, given>>
    BY DEF AppendRows, Up, ghosts
<1>2. /\ Typed /\ CallOK(c) /\ nodes' \subseteq 1 .. given /\ call \in [Callers -> Call]
    BY <1>1 DEF ChainInv, Typed
<1>3. /\ call[c].op # "Purge" /\ ChainsOK(call[c]) /\ NextOK(call[c])
      /\ call[c].prior # <<>> => call[c].k \in 1 .. Len(call[c].prior)
    BY <1>1, <1>2 DEF CallOK, Shape, Writing
<1>4. call[c].next \in Seq(Revision) /\ call[c].prior \in Seq(Revision) /\ call[c].on \in Seq(Memories)
    BY <1>2 DEF Call
<1>5. "append" \in Writing \ {"finish"} /\ "append" \notin Stored
    BY DEF Writing, Stored
<1>6. CASE rows' = rows /\ Return(c)
    BY ZenonT(30), <1>1, <1>2, <1>6, QuietReturn, QuietStep
<1>7. CASE rows' = rows /\ Go(c, "undo")
    <2>1. "undo" \in Stages /\ "undo" \in Writing /\ "undo" \notin Stored
        BY DEF Stages, Writing, Stored
    <2>2. Moved(c) /\ call'[c].pc = "undo"
        BY ZenonT(30), <1>1, <1>2, <1>7, <2>1, GoFacts
    <2>3. Quiet(c) /\ Range(call'[c].prior) \cup Range(call'[c].next) \subseteq Copies
        BY ZenonT(30), <1>1, <1>7, <2>2, QuietMove
    <2>4. CallOK(c)'
        BY ZenonT(30), <1>1, <1>5, <2>1, <2>2, <2>3, QuietSteady, WritingStays
    <2> QED BY ZenonT(30), <1>1, <1>2, <2>3, <2>4, QuietStep
<1>8. CASE rows' = rows \cup Range(call[c].next) /\ Go(c, IF Closes(call[c].op) THEN "close" ELSE "cache")
    <2> DEFINE at == IF Closes(call[c].op) THEN "close" ELSE "cache"
    <2>1. at \in Stages /\ at \in Writing /\ at \in {"close", "cache"} /\ (at = "close" => Closes(call[c].op))
        BY DEF Stages, Writing
    <2>2. Go(c, at)
        BY <1>8
    <2> HIDE DEF at
    <2>3. Moved(c) /\ call'[c].pc = at /\ call'[c].k = call[c].k
        BY ZenonT(30), <1>1, <1>2, <2>1, <2>2, GoFacts
    <2>4. Range(call[c].next) \subseteq Copies /\ Range(call'[c].prior) \cup Range(call'[c].next) \subseteq Copies
        BY <1>2, <2>3, CopiesFacts DEF Moved
    <2>5. \A r \in rows' : Derived(r)
        BY ZenonT(30), <1>1, <1>2, <1>8, <2>4, OldCopies, CopiesFacts
    <2>6. rows' \subseteq Revision' /\ given' \in Nat
        BY <1>1, <1>2, <2>5 DEF Derived, Typed
    <2>7. Steady
        <3>1. InHand \subseteq InHand'
            BY <1>1, <2>3, HandKept DEF Moved
        <3> QED BY ZenonT(30), <1>1, <1>2, <1>8, <3>1, SteadyRows
    <2>8. \A i \in 1 .. Len(call[c].next) : call[c].next[i] \in rows'
        BY ZenonT(30), <1>4, <1>8, RangeFacts
    <2>9. \A r \in Range(call[c].next) : r.until = None
        <3>1. \A r \in Range(call[c].next) : \E i \in 1 .. Len(call[c].next) : call[c].next[i] = r
            BY ZenonT(30), <1>4, RangeFacts
        <3>2. \A i \in 1 .. Len(call[c].next) : call[c].next[i].until = None
            BY <1>3 DEF NextOK
        <3> QED BY <3>1, <3>2
    <2>10. RowsOK'
        <3>1. ASSUME NEW r \in rows', r.until # None PROVE Shadowed(r, r.until)'
            <4>1. r \in rows
                BY <1>8, <2>9, <3>1
            <4>2. Shadowed(r, r.until)
                BY <3>1, <4>1 DEF ChainInv, RowsOK
            <4> QED BY <2>7, <4>2, ShadowedStays
        <3> QED BY <3>1 DEF RowsOK
    <2>11. ASSUME NEW i \in 1 .. Len(call[c].prior)
           PROVE  Superseded(call[c].prior[i])' /\ Shadowed(call[c].prior[i], call[c].next[1].from)'
        <3>1. PICK p : p = call[c].prior[i]
            OBVIOUS
        <3>2. PICK s : s = call[c].next[i]
            OBVIOUS
        <3>3. PICK t : t = call[c].next[1].from
            OBVIOUS
        <3>4. call[c].op # "Create"
            BY SMTT(20), <1>3, <2>11 DEF ChainsOK
        <3>5. Len(call[c].prior) = Len(call[c].next)
            BY <1>3, <3>4 DEF NextOK
        <3>6. s.logical = p.logical /\ s.version = p.version + 1 /\ s.from = t
            BY ZenonT(30), <1>3, <2>11, <3>1, <3>2, <3>3, <3>4, <3>5 DEF NextOK, ChainsOK
        <3>7. s \in rows' /\ s \in Revision
            BY <1>4, <2>8, <2>11, <3>2, <3>5, SMTT(20)
        <3>8. p \in Revision /\ p.version \in Nat
            <4>1. p \in Revision
                BY <1>4, <2>11, <3>1, SMTT(20)
            <4>2. p.version \in 1 .. given /\ given \in Nat
                BY ZenonT(30), <1>2, <4>1 DEF Typed, Revision
            <4> QED BY SMTT(20), <4>1, <4>2
        <3>9. s.version > p.version
            BY SMTT(20), <3>6, <3>8
        <3>10. s.from <= t
            <4>1. s.from \in Nat
                BY <3>7, TimesAssumption DEF Revision
            <4> QED BY SMTT(20), <3>6, <4>1
        <3>11. Superseded(p)'
            BY <3>6, <3>7, <3>9 DEF Superseded
        <3>12. Shadowed(p, t)'
            BY ZenonT(30), <3>6, <3>7, <3>9, <3>10 DEF Shadowed
        <3> QED BY ZenonT(30), <2>3, <3>1, <3>3, <3>11, <3>12 DEF Moved, Superseded, Shadowed
    <2>12. at = "close" => call[c].prior # <<>>
        <3>1. at = "close" => call[c].op # "Create"
            BY <2>1 DEF Closes
        <3>2. at = "close" => Len(call[c].prior) \in {1, 2}
            BY <1>3, <3>1 DEF NextOK, ChainsOK
        <3>3. Len(<<>>) \notin {1, 2}
            BY SMT
        <3> QED BY <3>2, <3>3
    <2>13. CallOK(c)'
        BY ZenonT(30), <1>1, <1>3, <1>5, <2>1, <2>3, <2>6, <2>7, <2>11, <2>12, WritingStays
    <2>14. torn' \subseteq born
        BY <1>1, <1>2 DEF Typed
    <2> QED BY ZenonT(30), <1>1, <2>3, <2>4, <2>5, <2>7, <2>10, <2>13, <2>14, RowStep DEF Moved
<1> QED BY <1>6, <1>7, <1>8 DEF AppendRows


(* The predecessor a call closes.                                           *)
LEMMA PriorFacts ==
    ASSUME ChainInv, NEW c \in Callers, call[c].pc \in {"close", "rewrite", "audit"}
    PROVE  /\ Prior(c) \in Copies /\ Prior(c) \in Revision /\ call[c].next[1].from \in Times
           /\ call[c].prior # <<>> /\ call[c].k \in 1 .. Len(call[c].prior)
           /\ Superseded(Prior(c)) /\ Shadowed(Prior(c), call[c].next[1].from)
           /\ call[c].pc \in Writing \ {"finish"} /\ call[c].pc \in Stored
<1>1. Typed /\ CallOK(c) /\ call[c].next \in Seq(Revision) /\ call[c].prior \in Seq(Revision)
    BY DEF ChainInv, Typed, Call
<1>2. call[c].pc \in Writing \ {"finish"} /\ call[c].pc \in Stored /\ call[c].pc \in Stored \ {"cache"}
    BY DEF Writing, Stored
<1>3. /\ call[c].prior # <<>> /\ call[c].k \in 1 .. Len(call[c].prior) /\ call[c].op # "Purge"
      /\ ChainsOK(call[c]) /\ NextOK(call[c])
    BY <1>1, <1>2 DEF CallOK, Shape
<1>4. Superseded(Prior(c)) /\ Shadowed(Prior(c), call[c].next[1].from)
    BY <1>1, <1>2, <1>3 DEF CallOK, Prior
<1>5. Prior(c) \in Copies /\ Copies \subseteq Revision
    BY <1>1, <1>3, CopiesFacts DEF Prior
<1>6. call[c].next[1].from \in Times
    <2>1. Len(call[c].next) \in {1, 2}
        BY <1>3 DEF NextOK, ChainsOK
    <2>2. call[c].next[1] \in Revision
        BY SMTT(20), <1>1, <2>1
    <2> QED BY <2>2 DEF Revision
<1> QED BY ZenonT(30), <1>2, <1>3, <1>4, <1>5, <1>6

(* A row is deleted whose chain goes on.                                    *)
LEMMA DeleteKeepsHead ==
    ASSUME ChainInv, NEW p, p \in Copies, Superseded(p), rows' = {r \in rows : r.id # p.id}
    PROVE  HeadStays
<1>1. Typed /\ rows \subseteq Copies /\ \A r \in rows : r.id = p.id => SameFact(r, p)
    BY CopiesFacts DEF ChainInv, CopiesAgree
<1>2. \A r \in Copies : r.version \in Nat
    <2>1. given \in Nat /\ \A r \in Copies : r.version \in 1 .. given
        BY <1>1, CopiesFacts DEF Revision, Typed
    <2> QED BY SMTT(20), <2>1
<1>3. \A a, b \in Nat : a > b => a # b /\ a >= b
    BY SMT
<1>4. \A a \in Nat : a >= a
    BY SMT
<1>5. ASSUME NEW r \in rows
      PROVE  \/ r.logical \in purging
             \/ \E s \in rows' : s.logical = r.logical /\ s.version >= r.version
    <2>1. CASE r.id # p.id
        BY <1>1, <1>2, <1>4, <2>1
    <2>2. CASE r.id = p.id
        <3>1. r.logical = p.logical /\ r.version = p.version
            BY <1>1, <2>2 DEF SameFact
        <3>2. CASE \E s \in rows : s.logical = p.logical /\ s.version > p.version
            <4>1. PICK s \in rows : s.logical = p.logical /\ s.version > p.version
                BY <3>2
            <4>2. s.version # p.version /\ s.version >= p.version
                BY <1>1, <1>2, <1>3, <4>1
            <4>3. s.id # p.id
                BY <1>1, <4>2 DEF SameFact
            <4> QED BY <3>1, <4>1, <4>2, <4>3
        <3> QED BY <3>1, <3>2 DEF Superseded
    <2> QED BY <2>1, <2>2
<1> QED BY <1>5 DEF HeadStays

(* ... and somebody holds a copy of it.                                     *)
LEMMA DeleteSteady ==
    ASSUME ChainInv, UNCHANGED <<born, purging, torn>>, NEW p, p \in Copies, Superseded(p),
           rows' = {r \in rows : r.id # p.id}, InHand \subseteq InHand',
           \E h \in InHand' : SameFact(h, p)
    PROVE  Steady
<1>1. \A r \in rows : r.id = p.id => SameFact(r, p)
    BY CopiesFacts DEF ChainInv, CopiesAgree
<1>5. HeadStays
    BY DeleteKeepsHead
<1>6. ASSUME NEW r \in rows \cup InHand
      PROVE  \E s \in rows' \cup InHand' : s.logical = r.logical /\ s.version = r.version /\ s.from = r.from
    <2>1. CASE r \in InHand
        BY <2>1
    <2>2. CASE r \in rows /\ r.id # p.id
        BY <2>2
    <2>3. CASE r \in rows /\ r.id = p.id
        <3>1. PICK h \in InHand' : SameFact(h, p)
            OBVIOUS
        <3> QED BY <1>1, <2>3, <3>1 DEF SameFact
    <2> QED BY <2>1, <2>2, <2>3
<1> QED BY <1>5, <1>6 DEF Steady

LEMMA CloseStep ==
    ASSUME ChainInv, NEW c \in Callers, Close(c)
    PROVE  ChainInv'
<1>1. /\ phase = "up" /\ call[c].pc = "close"
      /\ UNCHANGED <<nodes, envelopes, cache, phase, redo, purging, torn, born, given>>
    BY DEF Close, Up, ghosts
<1>2. Typed /\ nodes' \subseteq 1 .. given /\ torn' \subseteq born /\ given' \in Nat
    BY <1>1 DEF ChainInv, Typed
<1>3. /\ Prior(c) \in Copies /\ Prior(c) \in Revision /\ call[c].next[1].from \in Times
      /\ call[c].prior # <<>> /\ call[c].k \in 1 .. Len(call[c].prior) /\ Superseded(Prior(c))
      /\ "close" \in Writing \ {"finish"} /\ "close" \in Stored
    BY <1>1, PriorFacts
<1>4. CASE rows' = {r \in rows : r.id # Prior(c).id} /\ Go(c, "rewrite")
    <2>1. "rewrite" \in Stages /\ "rewrite" \in Writing /\ "rewrite" \in Stored
        BY DEF Stages, Writing, Stored
    <2>2. Moved(c) /\ call'[c].pc = "rewrite" /\ call'[c].k = call[c].k
        BY ZenonT(30), <1>1, <1>2, <1>4, <2>1, GoFacts
    <2>3. InHand \subseteq InHand'
        BY <1>1, <2>2, HandKept DEF Moved
    <2>4. \E h \in InHand' : SameFact(h, Prior(c))
        <3>1. PICK h : h = Closed(Prior(c), call[c].next[1].from)
            OBVIOUS
        <3>2. SameFact(h, Prior(c))
            BY <1>3, <3>1, ClosedFacts
        <3>3. h = Closed(call'[c].prior[call'[c].k], call'[c].next[1].from)
            BY <2>2, <3>1 DEF Moved, Prior
        <3>4. h \in InHand'
            BY <2>2, <3>3, NextHandCases
        <3> QED BY <3>2, <3>4
    <2>5. Steady
        <3>1. PICK p : p = Prior(c)
            OBVIOUS
        <3>2. /\ p \in Copies /\ Superseded(p) /\ rows' = {r \in rows : r.id # p.id}
              /\ \E h \in InHand' : SameFact(h, p)
            BY <1>3, <1>4, <2>4, <3>1
        <3> QED BY ZenonT(30), <1>1, <2>3, <3>2, DeleteSteady
    <2>6. rows' \subseteq rows /\ Range(call'[c].prior) \cup Range(call'[c].next) \subseteq Copies
        BY ZenonT(30), <1>2, <1>4, <2>2, CopiesFacts DEF Moved
    <2>7. \A r \in rows' : Derived(r)
        BY ZenonT(30), <1>1, <1>2, <2>6, OldCopies, CopiesFacts
    <2>8. rows' \subseteq Revision' /\ RowsOK'
        BY <2>5, <2>6, <2>7, RowsStay DEF Derived
    <2>9. CallOK(c)'
        BY ZenonT(30), <1>1, <1>2, <1>3, <2>1, <2>2, <2>5, <2>8, WritingStays
    <2> QED BY ZenonT(30), <1>1, <1>2, <2>2, <2>5, <2>6, <2>7, <2>8, <2>9, RowStep DEF Moved
<1>5. ASSUME NEW at \in {"cache", "audit"}, rows' = rows, Go(c, at) PROVE ChainInv'
    <2>1. at \in Stages /\ at \in Writing
        BY DEF Stages, Writing
    <2>2. Moved(c) /\ call'[c].pc = at /\ call'[c].k = call[c].k
        BY ZenonT(30), <1>1, <1>2, <1>5, <2>1, GoFacts
    <2>3. Quiet(c) /\ Range(call'[c].prior) \cup Range(call'[c].next) \subseteq Copies
        BY <1>1, <1>5, <2>2, QuietMove
    <2>4. CallOK(c)'
        BY ZenonT(30), <1>1, <1>3, <1>5, <2>1, <2>2, <2>3, QuietSteady, WritingStays
    <2> QED BY ZenonT(30), <1>1, <1>2, <2>3, <2>4, QuietStep
<1>6. CASE rows' = rows /\ NextPrior(c, "close", "cache", FALSE)
    <2>1. "close" \in Stages /\ "cache" \in Stages /\ "cache" \in Writing
        BY DEF Stages, Writing
    <2>2. /\ Moved(c) /\ call'[c].pc = (IF AtLast(c) THEN "cache" ELSE "close")
          /\ call'[c].k = (IF AtLast(c) THEN 1 ELSE call[c].k + 1)
        BY ZenonT(30), <1>1, <1>2, <1>6, <2>1, NextPriorFacts
    <2>3. call'[c].k \in 1 .. Len(call[c].prior)
        <3>1. call[c].prior \in Seq(Revision)
            BY <1>2 DEF Typed, Call
        <3> QED BY SMTT(20), <1>3, <2>2, <3>1 DEF AtLast
    <2>4. Quiet(c) /\ Range(call'[c].prior) \cup Range(call'[c].next) \subseteq Copies
        BY ZenonT(30), <1>1, <1>6, <2>2, QuietMove
    <2>5. CallOK(c)'
        BY ZenonT(30), <1>1, <1>3, <2>1, <2>2, <2>3, <2>4, QuietSteady, WritingStays
    <2> QED BY ZenonT(30), <1>1, <1>2, <2>4, <2>5, QuietStep
<1> QED BY <1>4, <1>5, <1>6 DEF Close


(* A revision hidden from t on is hidden from later on.                     *)
LEMMA ShadowedLater ==
    ASSUME rows \cup InHand \subseteq Revision, NEW r, NEW s, NEW t \in Times, NEW u \in Times, t <= u,
           r.logical = s.logical, r.version = s.version, Shadowed(r, t)
    PROVE  Shadowed(s, u)
<1>1. \A q \in rows \cup InHand : q.from \in Nat
    BY TimesAssumption DEF Revision
<1>2. \A a \in Nat : a <= t => a <= u
    BY SMTT(20), TimesAssumption
<1> QED BY <1>1, <1>2 DEF Shadowed

(* The rows in hand are copies of revisions.                                *)
LEMMA HandFacts ==
    ASSUME ChainInv, NEW h \in InHand
    PROVE  h \in Revision /\ \E p \in Copies : SameFact(h, p)
<1>1. CASE h \in redo.held
    <2>1. h \in Copies /\ Copies \subseteq Revision
        BY <1>1, CopiesFacts DEF ChainInv
    <2> QED BY <2>1 DEF SameFact
<1>2. CASE h \notin redo.held
    <2>1. PICK d \in Callers : /\ call[d].pc = "rewrite"
                              /\ h = Closed(call[d].prior[call[d].k], call[d].next[1].from)
        BY <1>2, HandCases
    <2>2. /\ Prior(d) \in Copies /\ Prior(d) \in Revision /\ call[d].next[1].from \in Times
        BY <2>1, PriorFacts
    <2>3. h = Closed(Prior(d), call[d].next[1].from)
        BY <2>1 DEF Prior
    <2> QED BY <2>2, <2>3, ClosedFacts
<1> QED BY <1>1, <1>2

LEMMA RewriteStep ==
    ASSUME ChainInv, NEW c \in Callers, Rewrite(c)
    PROVE  ChainInv'
<1>1. /\ phase = "up" /\ call[c].pc = "rewrite"
      /\ UNCHANGED <<nodes, envelopes, phase, redo, purging, born, given>>
    BY DEF Rewrite, Up
<1>2. Typed /\ nodes' \subseteq 1 .. given /\ torn \subseteq born /\ given' \in Nat /\ given \in Nat
    BY <1>1 DEF ChainInv, Typed
<1>3. PICK p : p = Prior(c)
    OBVIOUS
<1>4. PICK t : t = call[c].next[1].from
    OBVIOUS
<1>5. /\ p \in Copies /\ p \in Revision /\ t \in Times
      /\ call[c].prior # <<>> /\ call[c].k \in 1 .. Len(call[c].prior) /\ Superseded(p) /\ Shadowed(p, t)
      /\ "rewrite" \in Writing \ {"finish"} /\ "rewrite" \in Stored
    BY ZenonT(30), <1>1, <1>3, <1>4, PriorFacts
<1>6. PICK h : h = Closed(p, t)
    OBVIOUS
<1>7. /\ h \in Revision /\ SameFact(h, p) /\ h.until \in Times /\ t <= h.until
    BY ZenonT(30), <1>5, <1>6, ClosedFacts
<1>8. p.logical \in born /\ p.logical \in Memories
    BY <1>5 DEF ChainInv, CopiesAgree, Revision
<1>9. ASSUME \A d \in Callers \ {c} : call'[d] = call[d], NEW r \in InHand
      PROVE  r = h \/ r \in InHand'
    <2>1. CASE r \in redo.held
        BY <1>1, <2>1, NextHandCases
    <2>2. CASE r \notin redo.held
        <3>1. PICK d \in Callers : /\ call[d].pc = "rewrite"
                                  /\ r = Closed(call[d].prior[call[d].k], call[d].next[1].from)
            BY <2>2, HandCases
        <3>2. CASE d = c
            BY ZenonT(30), <1>3, <1>4, <1>6, <3>1, <3>2 DEF Prior
        <3>3. CASE d # c
            <4>1. call'[d] = call[d]
                BY <1>9, <3>3
            <4> QED BY <3>1, <4>1, NextHandCases
        <3> QED BY <3>2, <3>3
    <2> QED BY <2>1, <2>2
<1>10. \A r \in rows : r.version \in Nat
    <2>1. \A r \in rows : r.version \in 1 .. given
        BY <1>2 DEF Typed, Revision
    <2> QED BY SMTT(20), <1>2, <2>1
<1>11. \A n \in Nat : n >= n
    BY SMTT(20)
<1>12. ASSUME NEW at \in {"cache", "audit"}, rows' = rows \cup {h}, cache' = Evicted(p.logical), torn' = torn, Go(c, at)
       PROVE  ChainInv'
    <2>1. at \in Stages /\ at \in Writing
        BY DEF Stages, Writing
    <2>2. Moved(c) /\ call'[c].pc = at /\ call'[c].k = call[c].k
        BY ZenonT(30), <1>1, <1>2, <1>12, <2>1, GoFacts
    <2>3. \A d \in Callers \ {c} : call'[d] = call[d]
        BY <2>2 DEF Moved
    <2>4. \A r \in rows \cup InHand : r \in rows' \cup InHand'
        BY ZenonT(30), <1>9, <1>12, <2>3
    <2>5. Steady
        BY ZenonT(30), <1>1, <1>10, <1>11, <1>12, <2>4 DEF Steady, HeadStays
    <2>6. Range(call'[c].prior) \cup Range(call'[c].next) \subseteq Copies
        BY ZenonT(30), <1>2, <2>2, CopiesFacts DEF Moved
    <2>7. \A r \in rows' : Derived(r)
        <3>1. Derived(h)
            BY ZenonT(30), <1>1, <1>5, <1>6, ClosedCopies
        <3>2. \A r \in rows : Derived(r)
            BY ZenonT(30), <1>1, <1>2, OldCopies, CopiesFacts
        <3> QED BY <1>12, <3>1, <3>2
    <2>8. rows' \subseteq Revision'
        BY <2>7 DEF Derived
    <2>9. RowsOK'
        <3>1. Shadowed(h, h.until)
            <4>1. rows \cup InHand \subseteq Revision
                BY <1>2, HandFacts DEF Typed
            <4>2. p.logical = h.logical /\ p.version = h.version
                BY <1>7 DEF SameFact
            <4> QED BY ZenonT(30), <1>5, <1>7, <4>1, <4>2, ShadowedLater
        <3>2. \A r \in rows' : r.until # None => Shadowed(r, r.until)
            BY <1>12, <3>1 DEF ChainInv, RowsOK
        <3>3. ASSUME NEW r \in rows', r.until # None PROVE Shadowed(r, r.until)'
            BY ZenonT(30), <2>5, <3>2, <3>3, ShadowedStays
        <3> QED BY <3>3 DEF RowsOK
    <2>10. CallOK(c)'
        BY ZenonT(30), <1>1, <1>2, <1>5, <2>1, <2>2, <2>5, <2>8, WritingStays
    <2> QED BY ZenonT(30), <1>1, <1>2, <1>8, <1>12, <2>2, <2>5, <2>6, <2>7, <2>9, <2>10, RowStep DEF Moved
<1>13. CASE rows' = rows /\ cache' = cache /\ torn' = torn \cup {p.logical} /\ NextPrior(c, "close", "cache", FALSE)
    <2>1. "close" \in Stages /\ "cache" \in Stages /\ "cache" \in Writing /\ "close" \in Writing
        BY DEF Stages, Writing
    <2>2. /\ Moved(c) /\ call'[c].pc = (IF AtLast(c) THEN "cache" ELSE "close")
          /\ call'[c].k = (IF AtLast(c) THEN 1 ELSE call[c].k + 1)
        BY ZenonT(30), <1>1, <1>2, <1>13, <2>1, NextPriorFacts
    <2>3. call'[c].k \in 1 .. Len(call[c].prior)
        <3>1. call[c].prior \in Seq(Revision)
            BY <1>2 DEF Typed, Call
        <3> QED BY SMTT(20), <1>5, <2>2, <3>1 DEF AtLast
    <2>4. \A d \in Callers \ {c} : call'[d] = call[d]
        BY <2>2 DEF Moved
    <2>5. Steady
        <3>1. \A r \in InHand : r.logical \in torn' \/ r \in InHand'
            BY ZenonT(30), <1>7, <1>9, <1>13, <2>4 DEF SameFact
        <3> QED BY ZenonT(30), <1>1, <1>10, <1>11, <1>13, <3>1 DEF Steady, HeadStays
    <2>6. Range(call'[c].prior) \cup Range(call'[c].next) \subseteq Copies
        BY ZenonT(30), <1>2, <2>2, CopiesFacts DEF Moved
    <2>7. \A r \in rows' : Derived(r)
        BY ZenonT(30), <1>1, <1>2, <1>13, OldCopies, CopiesFacts
    <2>8. rows' \subseteq Revision' /\ RowsOK'
        BY ZenonT(30), <1>13, <2>5, <2>7, RowsStay DEF Derived
    <2>9. CallOK(c)'
        BY ZenonT(30), <1>1, <1>2, <1>5, <2>1, <2>2, <2>3, <2>5, <2>8, WritingStays
    <2>10. torn' \subseteq born
        BY ZenonT(30), <1>2, <1>8, <1>13
    <2> QED BY ZenonT(30), <1>1, <1>13, <2>2, <2>5, <2>6, <2>7, <2>8, <2>9, <2>10, RowStep DEF Moved
<1> QED BY ZenonT(30), <1>3, <1>4, <1>6, <1>12, <1>13 DEF Rewrite

(* The rows of a chain somebody asked to purge go.                          *)
LEMMA PurgeSteady ==
    ASSUME ChainInv, UNCHANGED <<born, purging, torn>>, NEW m \in purging, rows' = rows \ Of(m),
           InHand \subseteq InHand'
    PROVE  Steady
<1>1. \A r \in rows : r.version \in Nat
    <2>1. given \in Nat /\ \A r \in rows : r.version \in 1 .. given
        BY DEF ChainInv, Typed, Revision
    <2> QED BY SMTT(20), <2>1
<1>2. \A n \in Nat : n >= n
    BY SMT
<1>3. \A r \in rows : r \in rows' \/ r.logical \in purging
    BY DEF Of
<1> QED BY <1>1, <1>2, <1>3 DEF Steady, HeadStays

LEMMA SweepStep ==
    ASSUME ChainInv, NEW c \in Callers, Sweep(c)
    PROVE  ChainInv'
<1>1. /\ phase = "up" /\ call[c].pc = "sweep"
      /\ UNCHANGED <<nodes, envelopes, phase, redo, purging, torn, born, given>>
    BY DEF Sweep, Up, ghosts
<1>2. Typed /\ CallOK(c) /\ nodes' \subseteq 1 .. given /\ torn' \subseteq born /\ given' \in Nat /\ purging \subseteq Memories
    BY <1>1 DEF ChainInv, Typed
<1>3. CASE rows' = rows /\ cache' = cache /\ Return(c)
    BY ZenonT(30), <1>1, <1>2, <1>3, QuietReturn, QuietStep
<1>4. CASE rows' = rows \ Of(call[c].on[1]) /\ cache' = Evicted(call[c].on[1]) /\ Go(c, "unlink")
    <2>1. Moved(c) /\ call'[c].pc = "unlink"
        BY ZenonT(30), <1>1, <1>2, <1>4, GoFacts DEF Stages
    <2>2. InHand \subseteq InHand'
        BY <1>1, <2>1, HandKept DEF Moved
    <2>3. PICK m : m = call[c].on[1]
        OBVIOUS
    <2>4. m \in purging /\ Len(call[c].on) = 1 /\ call[c].op = "Purge" /\ m \in Memories
        BY ZenonT(30), <1>1, <1>2, <2>3 DEF CallOK, Shape
    <2>5. Steady
        BY ZenonT(30), <1>1, <1>4, <2>2, <2>3, <2>4, PurgeSteady
    <2>6. rows' \subseteq rows /\ Range(call'[c].prior) \cup Range(call'[c].next) \subseteq Copies
        BY ZenonT(30), <1>2, <1>4, <2>1, CopiesFacts DEF Moved
    <2>7. \A r \in rows' : Derived(r)
        BY ZenonT(30), <1>1, <1>2, <2>6, OldCopies, CopiesFacts
    <2>8. RowsOK'
        BY ZenonT(30), <2>5, <2>6, RowsStay
    <2>9. Shape(call'[c])
        BY <2>1, <2>4 DEF Shape, Writing, Stored, Moved
    <2>10. CallOK(c)'
        BY ZenonT(30), <1>1, <1>2, <2>1, <2>3, <2>4, <2>9 DEF CallOK, Moved, Stored
    <2>11. \E n \in Memories : cache' = Evicted(n)
        BY ZenonT(30), <1>4, <2>3, <2>4
    <2> QED BY ZenonT(30), <1>1, <1>2, <2>1, <2>5, <2>6, <2>7, <2>8, <2>10, <2>11, RowStep DEF Moved
<1> QED BY <1>3, <1>4 DEF Sweep


LEMMA AppendFacts ==
    ASSUME NEW S, NEW T, S \subseteq T, NEW q \in Seq(S), NEW y \in T
    PROVE  /\ Append(q, y) \in Seq(T) /\ Len(Append(q, y)) = Len(q) + 1
           /\ Append(q, y)[Len(q) + 1] = y
           /\ \A i \in 1 .. Len(q) : Append(q, y)[i] = q[i]
           /\ \A i \in 1 .. Len(q) + 1 : i \in 1 .. Len(q) \/ i = Len(q) + 1
<1>1. q \in Seq(T)
    BY SMTT(20)
<1> QED BY SMTT(20), <1>1

LEMMA HistoryStep ==
    ASSUME ChainInv, NEW c \in Callers, History(c)
    PROVE  ChainInv'
<1>1. /\ phase = "up" /\ call[c].pc = "history"
      /\ UNCHANGED <<rows, nodes, cache, phase, redo, torn, born, given>>
    BY ZenonT(30) DEF History, Up
<1>2. /\ Typed /\ CallOK(c) /\ nodes' \subseteq 1 .. given /\ call \in [Callers -> Call] /\ Call' = Call
      /\ envelopes \in Seq(MutationEnvelope) /\ MutationEnvelope' = MutationEnvelope /\ given \in Nat
      /\ rows \subseteq Revision /\ cache \in [Memories -> Revision \cup {None}] /\ born \subseteq Memories
      /\ purging \cup torn \subseteq born /\ \A n \in Memories : cache[n] = None \/ cache[n].logical = n
    BY ZenonT(30), <1>1 DEF ChainInv, Typed, Call, Revision, MutationEnvelope
<1>3. CASE envelopes' = envelopes /\ purging' = purging /\ Return(c)
    BY ZenonT(30), <1>1, <1>2, <1>3, QuietReturn, QuietStep
<1>4. PICK m : m = call[c].on[1]
    OBVIOUS
<1>5. PICK w : w = Envelope("purge", <<m>>, Ids(Of(m)), <<>>)
    OBVIOUS
<1>6. CASE /\ envelopes' = Append(envelopes, w) /\ purging' = purging \cup {m}
           /\ call' = [call EXCEPT ![c].pc = "sweep", ![c].env = Len(envelopes) + 1]
    <2>1. Len(call[c].on) = 1 /\ call[c].op = "Purge" /\ Range(call[c].on) \subseteq born /\ call[c].on \in Seq(Memories)
        BY ZenonT(30), <1>1, <1>2 DEF CallOK, Shape, Call
    <2>2. m \in born /\ m \in Memories
        <3>1. 1 \in 1 .. 1
            BY SMT
        <3>2. \A i \in 1 .. Len(call[c].on) : call[c].on[i] \in Range(call[c].on)
            <4>1. \A x : x \in Range(call[c].on) <=> \E i \in 1 .. Len(call[c].on) : call[c].on[i] = x
                BY <2>1, RangeFacts
            <4> QED BY <4>1
        <3>3. m \in Range(call[c].on)
            BY ZenonT(30), <1>4, <2>1, <3>1, <3>2
        <3> QED BY <1>2, <2>1, <3>3
    <2>3. w \in MutationEnvelope /\ w.kind = "purge" /\ w.on = <<m>>
        <3>1. <<m>> \in Seq(Memories) /\ <<>> \in Seq(1 .. given)
            BY SMTT(20), <2>2
        <3>2. Ids(Of(m)) \subseteq 1 .. given
            BY <1>2 DEF Ids, Of, Revision
        <3> QED BY ZenonT(30), <1>5, <3>1, <3>2 DEF Envelope, MutationEnvelope
    <2>4. PICK x \in Call : x = call[c]
        BY <1>2
    <2>5. PICK n : n = Len(envelopes) + 1
        OBVIOUS
    <2>6. PICK y : y = [x EXCEPT !.pc = "sweep", !.env = n]
        OBVIOUS
    <2>7. y.pc = "sweep" /\ y.prior = x.prior /\ y.next = x.next /\ y.op = x.op /\ y.on = x.on
        BY ONLY <2>6, x \in Call, SMTT(20) DEF Call
    <2>8. y \in Call
        <3>1. n \in Nat
            BY SMTT(20), <1>2, <2>5
        <3> QED BY <2>6, <3>1 DEF Call, Stages
    <2>9. call' = [call EXCEPT ![c] = y]
        BY ZenonT(30), <1>2, <1>6, <2>4, <2>5, <2>6
    <2>10. call'[c] = y /\ call' \in [Callers -> Call'] /\ \A d \in Callers \ {c} : call'[d] = call[d]
        BY ZenonT(30), <1>2, <2>8, <2>9
    <2>11. Shape(y)
        BY ZenonT(30), <2>1, <2>4, <2>7 DEF Shape, Writing, Stored
    <2>12. CallOK(c)'
        <3>1. call'[c].pc = "sweep" /\ Range(call'[c].on) \subseteq born' /\ call'[c].on[1] \in purging'
            <4>1. call'[c].on = call[c].on /\ call'[c].pc = "sweep"
                BY ZenonT(30), <2>4, <2>7, <2>10
            <4>2. m \in purging' /\ born' = born
                BY <1>1, <1>6
            <4> QED BY ZenonT(30), <1>4, <2>1, <4>1, <4>2
        <3> QED BY ZenonT(30), <2>10, <2>11, <3>1 DEF CallOK, Stored
    <2>13. Steady
        <3>1. InHand \subseteq InHand'
            BY ZenonT(30), <1>1, <2>10, HandKept
        <3> QED BY ZenonT(30), <1>1, <1>2, <1>6, <3>1, SteadyRows
    <2>14. AllDerived
        <3>1. /\ \A d \in Callers : Range(call[d].prior) \cup Range(call[d].next) \subseteq Copies
              /\ rows \subseteq Copies /\ redo.todo \cup redo.held \subseteq Copies
              /\ \A k \in Memories : cache[k] # None => cache[k] \in Copies
            BY <1>2, CopiesFacts
        <3>2. \A d \in Callers : Range(call'[d].prior) \cup Range(call'[d].next) \subseteq Copies
            BY ZenonT(30), <2>4, <2>7, <2>10, <3>1
        <3> QED BY ZenonT(30), <1>1, <3>1, <3>2, OldCopies DEF AllDerived
    <2>15. RowsOK'
        BY ZenonT(30), <1>1, <2>13, RowsStay
    <2>16. /\ envelopes' \in Seq(MutationEnvelope) /\ Len(envelopes') = Len(envelopes) + 1
           /\ envelopes'[Len(envelopes) + 1] = w
           /\ \A e \in 1 .. Len(envelopes) : envelopes'[e] = envelopes[e]
           /\ \A e \in 1 .. Len(envelopes) + 1 : e \in 1 .. Len(envelopes) \/ e = Len(envelopes) + 1
        <3>2. PICK T : T = MutationEnvelope
            OBVIOUS
        <3>3. T \subseteq T /\ envelopes \in Seq(T) /\ w \in T
            BY ZenonT(30), <1>2, <2>3, <3>2
        <3>4. /\ Append(envelopes, w) \in Seq(T) /\ Len(Append(envelopes, w)) = Len(envelopes) + 1
              /\ Append(envelopes, w)[Len(envelopes) + 1] = w
              /\ \A e \in 1 .. Len(envelopes) : Append(envelopes, w)[e] = envelopes[e]
              /\ \A e \in 1 .. Len(envelopes) + 1 : e \in 1 .. Len(envelopes) \/ e = Len(envelopes) + 1
            BY ONLY <3>3, AppendFacts, ZenonT(30)
        <3> QED BY ZenonT(30), <1>6, <3>2, <3>4
    <2>17. ASSUME NEW e \in 1 .. Len(envelopes) PROVE EnvelopeOK(e)'
        BY ZenonT(30), <1>6, <2>14, <2>16, EnvelopeStays
    <2>18. ASSUME NEW e, e = Len(envelopes) + 1 PROVE EnvelopeOK(e)'
        <3>1. envelopes'[e] = w
            BY <2>16, <2>18
        <3>2. Len(<<m>>) = 1 /\ <<m>>[1] = m
            BY SMTT(20)
        <3>3. w.prior = Ids(Of(m)) /\ w.next = <<>>
            BY <1>5 DEF Envelope
        <3>4. ASSUME NEW r \in Copies', r.id \in w.prior PROVE r.logical = m
            <4>1. PICK q \in Copies : SameFact(r, q)
                BY <2>14, CopiesDerived DEF Derived
            <4>2. PICK u \in rows : u.logical = m /\ u.id = r.id
                BY <3>3, <3>4 DEF Ids, Of
            <4>3. u \in Copies
                BY ZenonT(30), <1>2, CopiesFacts
            <4>4. SameFact(q, u)
                BY ZenonT(30), <4>1, <4>2, <4>3 DEF ChainInv, CopiesAgree, SameFact
            <4> QED BY ZenonT(30), <4>1, <4>2, <4>4 DEF SameFact
        <3>5. NamesOK(e)'
            BY ZenonT(30), <2>3, <3>1, <3>2, <3>3, <3>4 DEF NamesOK
        <3> QED BY ZenonT(30), <1>6, <2>3, <3>1, <3>2, <3>5 DEF EnvelopeOK
    <2>19. \A e \in 1 .. Len(envelopes') : EnvelopeOK(e)'
        BY ZenonT(30), <2>16, <2>17, <2>18
    <2>20. purging' \cup torn' \subseteq born' /\ born' \subseteq Memories
        BY ZenonT(30), <1>1, <1>2, <1>6, <2>2
    <2> QED BY ZenonT(30), <1>1, <1>2, <2>10, <2>12, <2>13, <2>14, <2>15, <2>16, <2>19, <2>20, CallerStep
<1> QED BY ZenonT(30), <1>3, <1>4, <1>5, <1>6 DEF History


(* The revisions a call builds.                                             *)
LEMMA NewRevisions ==
    ASSUME ChainInv, NEW c \in Callers, call[c].pc = "intend", NEW next \in Revisions(c),
           given' = given + Len(call[c].on)
    PROVE  /\ next \in Seq(Revision') /\ Len(next) = Len(call[c].on) /\ Len(next) \in {1, 2}
           /\ \A i \in 1 .. Len(next) :
                 /\ next[i].id = given + i /\ next[i].logical = call[c].on[i] /\ next[i].op = call[c].op
                 /\ next[i].from = next[1].from /\ next[i].until = None
                 /\ next[i].merged_into = IF i > 1 THEN call[c].on[1] ELSE None
           /\ call[c].op # "Create" =>
                 /\ Len(call[c].prior) = Len(call[c].on)
                 /\ \A i \in 1 .. Len(call[c].prior) : next[i].version = call[c].prior[i].version + 1
<1>1. /\ CallOK(c) /\ call[c].on \in Seq(Memories) /\ call[c].prior \in Seq(Revision) /\ given \in Nat
    BY DEF ChainInv, Typed, Call
<1>2. /\ ChainsOK(call[c]) /\ (call[c].op # "Create" => Len(call[c].prior) = Len(call[c].on))
      /\ Len(call[c].on) \in {1, 2} /\ call[c].op \in Edits \cup {"Create"}
    BY <1>1 DEF CallOK, Shape, ChainsOK
<1>3. given' \in Nat /\ given + 1 \in 1 .. given' /\ 1 \in 1 .. given' /\ \A i \in 1 .. Len(call[c].on) : given + i \in 1 .. given'
    <2>1. PICK n : n = Len(call[c].on)
        OBVIOUS
    <2>2. n \in {1, 2} /\ given \in Nat /\ given' = given + n
        BY ZenonT(30), <1>1, <1>2, <2>1
    <2>3. given' \in Nat /\ given + 1 \in 1 .. given' /\ 1 \in 1 .. given' /\ \A i \in 1 .. n : given + i \in 1 .. given'
        BY ONLY <2>2, SMTT(20)
    <2> QED BY <2>1, <2>3
<1>4. CASE call[c].op = "Create"
    <2>1. PICK t \in Times : next = <<Original(c, t)>>
        BY <1>4 DEF Revisions
    <2>2. PICK r : r = Original(c, t)
        OBVIOUS
    <2>3. /\ r.logical = call[c].on[1] /\ r.id = given + 1 /\ r.version = 1 /\ r.op = "Create" /\ r.from = t
          /\ r.until = None /\ r.merged_into = None
        BY ONLY <2>2, Zenon DEF Original
    <2>4. Len(call[c].on) = 1 /\ call[c].on[1] \in Memories
        <3>1. Len(call[c].on) = 1
            BY <1>2, <1>4 DEF ChainsOK
        <3> QED BY SMTT(20), <1>1, <3>1
    <2>5. r \in Revision'
        BY ZenonT(30), <1>3, <2>2, <2>4 DEF Original, Revision
    <2>6. next \in Seq(Revision') /\ Len(next) = 1 /\ next[1] = r /\ \A i \in 1 .. 1 : i = 1 /\ ~(i > 1)
        BY SMTT(20), <2>1, <2>2, <2>5
    <2> QED BY ZenonT(30), <1>4, <2>3, <2>4, <2>6
<1>5. CASE call[c].op # "Create"
    <2>1. PICK t \in Times : next = [i \in 1 .. Len(call[c].prior) |-> Successor(c, call[c].prior[i], i, t)]
        BY <1>5 DEF Revisions
    <2>2. Len(call[c].prior) = Len(call[c].on) /\ Len(call[c].prior) \in Nat /\ 1 \in 1 .. Len(call[c].prior)
        <3>1. \A n \in {1, 2} : n \in Nat /\ 1 \in 1 .. n
            BY SMTT(20)
        <3> QED BY ZenonT(30), <1>2, <1>5, <3>1
    <2>3. call[c].op \in Edits
        BY <1>2, <1>5
    <2>4. ASSUME NEW i \in 1 .. Len(call[c].prior)
          PROVE  /\ next[i] \in Revision' /\ next[i].id = given + i /\ next[i].logical = call[c].on[i]
                 /\ next[i].op = call[c].op /\ next[i].from = t /\ next[i].until = None
                 /\ next[i].merged_into = IF i > 1 THEN call[c].on[1] ELSE None
                 /\ next[i].version = call[c].prior[i].version + 1
        <3>1. PICK p : p = call[c].prior[i]
            OBVIOUS
        <3>2. PICK r : r = Successor(c, p, i, t)
            OBVIOUS
        <3>3. next[i] = r
            BY ZenonT(30), <2>1, <3>1, <3>2
        <3>4. /\ r.logical = p.logical /\ r.id = given + i /\ r.version = p.version + 1 /\ r.op = call[c].op
              /\ r.from = t /\ r.until = None /\ r.merged_into = IF i > 1 THEN call[c].on[1] ELSE None
            BY ONLY <3>2, Zenon DEF Successor
        <3>5. p \in Revision /\ p.logical = call[c].on[i] /\ p.logical \in Memories /\ call[c].on[1] \in Memories
            <4>1. p \in Revision
                BY SMTT(20), <1>1, <3>1
            <4>2. p.logical = call[c].on[i]
                BY <1>2, <3>1 DEF ChainsOK
            <4>3. call[c].on[1] \in Memories
                BY SMTT(20), <1>1, <2>2
            <4> QED BY ZenonT(30), <4>1, <4>2, <4>3 DEF Revision
        <3>6. p.version + 1 \in 1 .. given' /\ given + i \in 1 .. given'
            <4>1. p.version \in 1 .. given
                BY <3>5 DEF Revision
            <4> QED BY SMTT(20), <1>1, <1>2, <1>3, <2>2, <2>4, <4>1
        <3>7. (IF i > 1 THEN call[c].on[1] ELSE None) \in Memories \cup {None}
            BY <3>5
        <3>8. r \in Revision'
            BY ZenonT(30), <2>3, <3>2, <3>5, <3>6, <3>7 DEF Successor, Revision, Edits
        <3> QED BY ZenonT(30), <3>1, <3>3, <3>4, <3>5, <3>8
    <2>5. next \in Seq(Revision') /\ Len(next) = Len(call[c].prior)
        <3>1. next = [i \in 1 .. Len(call[c].prior) |-> next[i]]
            BY <2>1
        <3>2. next \in [1 .. Len(call[c].prior) -> Revision']
            BY <2>4, <3>1
        <3>3. \A S : \A n \in Nat : \A q \in [1 .. n -> S] : q \in Seq(S) /\ Len(q) = n
            BY SMT
        <3> QED BY ZenonT(30), <2>2, <3>2, <3>3
    <2>6. next[1].from = t
        BY <2>2, <2>4
    <2> QED BY ZenonT(30), <1>2, <2>2, <2>4, <2>5, <2>6
<1> QED BY ZenonT(30), <1>4, <1>5

(* The envelopes of before do not name a new revision.                      *)
LEMMA OldEnvelope ==
    ASSUME ChainInv, purging' = purging, NEW e \in 1 .. Len(envelopes), envelopes'[e] = envelopes[e],
           \A r \in Copies' : r.id \in 1 .. given => r \in Copies
    PROVE  EnvelopeOK(e)'
<1>1. EnvelopeOK(e) /\ envelopes[e] \in MutationEnvelope
    <2>1. envelopes \in Seq(MutationEnvelope)
        BY DEF ChainInv, Typed
    <2>2. \A S : \A q \in Seq(S) : \A i \in 1 .. Len(q) : q[i] \in S
        BY SMT
    <2> QED BY ZenonT(30), <2>1, <2>2 DEF ChainInv
<1>2. NamesOK(e)'
    <2>1. PICK x : x = envelopes[e] /\ x = envelopes'[e]
        OBVIOUS
    <2>2. x.prior \subseteq 1 .. given /\ x.next \in Seq(1 .. given)
        BY <1>1, <2>1 DEF MutationEnvelope
    <2>3. NamesOK(e)
        BY <1>1 DEF EnvelopeOK
    <2>4. ASSUME NEW r \in Copies', r.id \in x.prior PROVE \E q \in Copies : SameFact(r, q)
        BY <2>2, <2>4 DEF SameFact
    <2>5. ASSUME x.kind = "merge", NEW r \in Copies', r.id = x.next[2] PROVE \E q \in Copies : SameFact(r, q)
        <3>1. Len(x.next) = 2
            BY ZenonT(30), <2>1, <2>3, <2>5 DEF NamesOK
        <3>2. x.next[2] \in 1 .. given
            <4>1. \A S : \A q \in Seq(S) : \A i \in 1 .. Len(q) : q[i] \in S
                BY SMTT(20)
            <4>2. 2 \in 1 .. 2
                BY SMTT(20)
            <4> QED BY ZenonT(30), <2>2, <3>1, <4>1, <4>2
        <3> QED BY <2>5, <3>2 DEF SameFact
    <2>6. /\ envelopes'[e].kind = envelopes[e].kind /\ envelopes'[e].on = envelopes[e].on
          /\ envelopes'[e].prior = envelopes[e].prior /\ envelopes'[e].next = envelopes[e].next
        BY <2>1
    <2> QED BY ZenonT(30), <2>1, <2>3, <2>4, <2>5, <2>6, NamesStay
<1>3. CASE envelopes[e].kind = "purge"
    BY ZenonT(30), <1>1, <1>2, <1>3 DEF EnvelopeOK
<1>4. CASE envelopes[e].kind # "purge"
    <2>1. PICK prior : prior = envelopes[e].prior
        OBVIOUS
    <2>2. PICK next : next = envelopes[e].next
        OBVIOUS
    <2>3. /\ next # <<>>
          /\ \A r \in Copies : r.id \in prior =>
                \E i \in 1 .. Len(next) :
                    \A s \in Copies : s.id = next[i] => s.logical = r.logical /\ s.version = r.version + 1
          /\ \A r, s \in Copies : {r.id, s.id} \subseteq Range(next) => r.from = s.from
        BY ZenonT(30), <1>1, <1>4, <2>1, <2>2 DEF EnvelopeOK
    <2>4. prior \subseteq 1 .. given /\ next \in Seq(1 .. given)
        BY ZenonT(30), <1>1, <2>1, <2>2 DEF MutationEnvelope
    <2>5. Range(next) \subseteq 1 .. given /\ \A i \in 1 .. Len(next) : next[i] \in 1 .. given
        <3>1. \A z : z \in Range(next) <=> \E i \in 1 .. Len(next) : next[i] = z
            BY <2>4, RangeFacts
        <3>2. Range(next) \subseteq 1 .. given
            BY <2>4, RangeFacts
        <3> QED BY <3>1, <3>2
    <2>6. ASSUME NEW r \in Copies', r.id \in prior
          PROVE  \E i \in 1 .. Len(next) :
                     \A s \in Copies' : s.id = next[i] => s.logical = r.logical /\ s.version = r.version + 1
        <3>1. r \in Copies
            BY <2>4, <2>6
        <3>2. PICK i \in 1 .. Len(next) :
                  \A s \in Copies : s.id = next[i] => s.logical = r.logical /\ s.version = r.version + 1
            BY ZenonT(30), <2>3, <2>6, <3>1
        <3>3. \A s \in Copies' : s.id = next[i] => s \in Copies
            BY <2>5
        <3> QED BY <3>2, <3>3
    <2>7. ASSUME NEW r \in Copies', NEW s \in Copies', {r.id, s.id} \subseteq Range(next) PROVE r.from = s.from
        <3>1. r \in Copies /\ s \in Copies
            BY ZenonT(30), <2>5, <2>7
        <3> QED BY ZenonT(30), <2>3, <2>7, <3>1
    <2>8. envelopes'[e].kind # "purge" /\ envelopes'[e].prior = prior /\ envelopes'[e].next = next
        <3>1. envelopes'[e] = envelopes[e]
            OBVIOUS
        <3> QED BY ONLY <1>4, <2>1, <2>2, <3>1, SMTT(20)
    <2>9. /\ envelopes'[e].next # <<>>
          /\ \A r \in Copies' : r.id \in envelopes'[e].prior =>
                \E i \in 1 .. Len(envelopes'[e].next) :
                    \A s \in Copies' : s.id = envelopes'[e].next[i]
                                      => s.logical = r.logical /\ s.version = r.version + 1
          /\ \A r, s \in Copies' : {r.id, s.id} \subseteq Range(envelopes'[e].next) => r.from = s.from
        BY ZenonT(30), <2>3, <2>6, <2>7, <2>8
    <2> QED BY ZenonT(30), <1>2, <2>8, <2>9 DEF EnvelopeOK
<1> QED BY <1>3, <1>4

(* Ids beyond the given ones are those of the new revisions.                *)
LEMMA IntendStep ==
    ASSUME ChainInv, NEW c \in Callers, Intend(c)
    PROVE  ChainInv'
<1>1. /\ phase = "up" /\ call[c].pc = "intend"
      /\ UNCHANGED <<rows, nodes, cache, phase, redo, purging, torn, born>>
    BY DEF Intend, Up, ghosts
<1>2. /\ Typed /\ CallOK(c) /\ nodes \subseteq 1 .. given /\ call \in [Callers -> Call]
      /\ envelopes \in Seq(MutationEnvelope) /\ given \in Nat /\ redo = NoRedo
      /\ rows \subseteq Revision /\ cache \in [Memories -> Revision \cup {None}] /\ born \subseteq Memories
      /\ purging \cup torn \subseteq born /\ \A n \in Memories : cache[n] = None \/ cache[n].logical = n
    BY ZenonT(30), <1>1 DEF ChainInv, Typed
<1>3. CASE given' = given /\ envelopes' = envelopes /\ Return(c)
    BY ZenonT(30), <1>1, <1>2, <1>3, QuietReturn, QuietStep
<1>4. CASE /\ given' = given + Len(call[c].on)
           /\ \E next \in Revisions(c) :
                 /\ call' = [call EXCEPT ![c].next = next, ![c].env = Len(envelopes) + 1,
                                ![c].pc = IF call[c].op = "Retract" THEN "append" ELSE "node"]
                 /\ envelopes' = Append(envelopes,
                        Envelope(Kind(call[c].op), call[c].on, Ids(Range(call[c].prior)), IdSeq(next)))
    <2>1. PICK next \in Revisions(c) :
                 /\ call' = [call EXCEPT ![c].next = next, ![c].env = Len(envelopes) + 1,
                                ![c].pc = IF call[c].op = "Retract" THEN "append" ELSE "node"]
                 /\ envelopes' = Append(envelopes,
                        Envelope(Kind(call[c].op), call[c].on, Ids(Range(call[c].prior)), IdSeq(next)))
        BY <1>4
    <2>2. /\ next \in Seq(Revision') /\ Len(next) = Len(call[c].on) /\ Len(next) \in {1, 2}
          /\ \A i \in 1 .. Len(next) :
                /\ next[i].id = given + i /\ next[i].logical = call[c].on[i] /\ next[i].op = call[c].op
                /\ next[i].from = next[1].from /\ next[i].until = None
                /\ next[i].merged_into = IF i > 1 THEN call[c].on[1] ELSE None
          /\ call[c].op # "Create" =>
                /\ Len(call[c].prior) = Len(call[c].on)
                /\ \A i \in 1 .. Len(call[c].prior) : next[i].version = call[c].prior[i].version + 1
        BY ZenonT(30), <1>1, <1>4, NewRevisions
    <2>3. /\ call[c].on \in Seq(Memories) /\ call[c].prior \in Seq(Revision) /\ ChainsOK(call[c]) /\ call[c].k = 1
          /\ call[c].op \in Edits \cup {"Create"} /\ Range(call[c].on) \subseteq born
        <3>1. ChainsOK(call[c]) /\ call[c].k = 1
            BY ZenonT(30), <1>1, <1>2 DEF CallOK, Shape
        <3>2. call[c].op # "Repair"
            BY ZenonT(30), <3>1 DEF ChainsOK, Edits
        <3> QED BY ZenonT(30), <1>2, <3>1, <3>2 DEF Call, CallOK, ChainsOK
    <2>4. given' \in Nat /\ (1 .. given) \subseteq (1 .. given') /\ \A i \in 1 .. Len(next) : given + i \in 1 .. given' /\ given + i \notin 1 .. given
        BY SMTT(20), <1>2, <1>4, <2>2
    <2>5. Revision \subseteq Revision'
        BY <2>4 DEF Revision
    <2>6. Seq(Revision) \subseteq Seq(Revision') /\ Seq(1 .. given) \subseteq Seq(1 .. given')
        <3>1. \A S, T : S \subseteq T => Seq(S) \subseteq Seq(T)
            BY SMTT(20)
        <3> QED BY ZenonT(30), <2>4, <2>5, <3>1
    <2>7. Call \subseteq Call'
        BY <2>6 DEF Call
    <2>8. MutationEnvelope \subseteq MutationEnvelope'
        BY <2>4, <2>6 DEF MutationEnvelope
    <2>9. PICK at : at = IF call[c].op = "Retract" THEN "append" ELSE "node"
        OBVIOUS
    <2>10. at \in {"append", "node"} /\ at \in Stages /\ at \in Writing \ {"finish"} /\ at \notin Stored /\ (at = "append" => call[c].op = "Retract")
        BY <2>9 DEF Stages, Writing, Stored
    <2>11. PICK x \in Call : x = call[c]
        BY <1>2
    <2>12. PICK n : n = Len(envelopes) + 1
        OBVIOUS
    <2>13. n \in Nat
        BY SMTT(20), <1>2, <2>12
    <2>14. PICK y : y = [x EXCEPT !.next = next, !.env = n, !.pc = at]
        OBVIOUS
    <2>15. y.pc = at /\ y.prior = x.prior /\ y.next = next /\ y.op = x.op /\ y.on = x.on /\ y.k = x.k
        BY ONLY <2>14, x \in Call, SMTT(20) DEF Call
    <2>16. y \in Call'
        <3>1. x \in Call'
            BY <2>7
        <3> QED BY ZenonT(30), <2>2, <2>10, <2>13, <2>14, <3>1 DEF Call
    <2>17. call' = [call EXCEPT ![c] = y]
        BY ZenonT(30), <1>2, <2>1, <2>9, <2>11, <2>12, <2>14
    <2>18. call'[c] = y /\ call' \in [Callers -> Call'] /\ \A d \in Callers \ {c} : call'[d] = call[d]
        BY ZenonT(30), <1>2, <2>7, <2>16, <2>17
    <2>19. ChainsOK(y) /\ NextOK(y)
        <3>1. ChainsOK(y)
            BY ZenonT(30), <2>3, <2>11, <2>15 DEF ChainsOK
        <3>2. NextOK(y)
            BY ZenonT(30), <2>2, <2>11, <2>15 DEF NextOK
        <3> QED BY <3>1, <3>2
    <2>20. Shape(y)
        <3>1. y.k = 1 /\ y.op # "Purge"
            BY ZenonT(30), <2>3, <2>11, <2>15 DEF Edits
        <3>2. 1 \in 1 .. Len(y.next)
            <4>1. \A k \in {1, 2} : 1 \in 1 .. k
                BY SMTT(20)
            <4> QED BY ZenonT(30), <2>2, <2>15, <4>1
        <3>3. y.prior # <<>> => 1 \in 1 .. Len(y.prior)
            <4>1. y.prior \in Seq(Revision)
                BY ZenonT(30), <2>3, <2>11, <2>15
            <4> QED BY SMTT(20), <4>1
        <3> QED BY <2>10, <2>15, <2>19, <3>1, <3>2, <3>3 DEF Shape
    <2>21. CallOK(c)'
        <3>1. Range(call'[c].on) \subseteq born' /\ call'[c].pc \notin {"close", "rewrite", "audit", "sweep", "unlink"}
            BY ZenonT(30), <1>1, <2>3, <2>10, <2>11, <2>15, <2>18
        <3> QED BY ZenonT(30), <2>10, <2>15, <2>18, <2>20, <3>1 DEF CallOK
    <2>22. Steady
        <3>1. InHand \subseteq InHand'
            BY ZenonT(30), <1>1, <2>18, HandKept
        <3> QED BY ZenonT(30), <1>1, <1>2, <3>1, SteadyRows
    <2>23. rows' \subseteq Revision'
        BY ZenonT(30), <1>1, <1>2, <2>5
    <2>24. \A d \in Callers : CallOK(d)'
        BY ZenonT(30), <2>4, <2>18, <2>21, <2>22, <2>23, CallStays
    <2>25. RowsOK' /\ RedoOK'
        <3>1. redo'.todo = {} /\ redo'.held = {}
            BY SMTT(20), <1>1, <1>2 DEF NoRedo
        <3>2. RowsOK'
            BY ZenonT(30), <1>1, <2>22, RowsStay
        <3> QED BY ZenonT(30), <3>1, <3>2 DEF RedoOK
    <2>26. \A r \in Range(next) : \E i \in 1 .. Len(next) : next[i] = r
        <3>1. PICK T : next \in Seq(T)
            BY <2>2
        <3> QED BY ONLY <3>1, RangeFacts, ZenonT(30)
    <2>27. \A r \in Copies' : r \in Copies \/ r \in Range(next)
        <3>1. SUFFICES ASSUME NEW r \in Copies' PROVE r \in Copies \/ r \in Range(next)
            OBVIOUS
        <3>2. \/ r \in rows'
              \/ \E m \in Memories : cache'[m] # None /\ r = cache'[m]
              \/ \E d \in Callers : r \in Range(call'[d].prior) \/ r \in Range(call'[d].next)
              \/ r \in redo'.todo \/ r \in redo'.held
            BY NextCopyCases
        <3>3. CASE \E d \in Callers : r \in Range(call'[d].prior) \/ r \in Range(call'[d].next)
            <4>1. PICK d \in Callers : r \in Range(call'[d].prior) \/ r \in Range(call'[d].next)
                BY <3>3
            <4>2. CASE d = c
                <5>1. call'[d].prior = call[c].prior /\ call'[d].next = next
                    BY ZenonT(30), <2>11, <2>15, <2>18, <4>2
                <5>2. Range(call[c].prior) \subseteq Copies
                    BY ZenonT(30), <1>2, CopiesFacts
                <5> QED BY ZenonT(30), <4>1, <5>1, <5>2
            <4>3. CASE d # c
                BY ZenonT(30), <1>2, <2>18, <4>1, <4>3, CopiesFacts
            <4> QED BY <4>2, <4>3
        <3> QED BY ZenonT(30), <1>1, <1>2, <3>2, <3>3, CopiesFacts
    <2>28. Copies \subseteq Revision /\ \A r \in Copies : r.id \in 1 .. given
        BY ZenonT(30), <1>2, CopiesFacts DEF Revision
    <2>29. \A i \in 1 .. Len(next) : \A r \in Copies' : r.id = given + i => r = next[i]
        <3>1. SUFFICES ASSUME NEW i \in 1 .. Len(next), NEW r \in Copies', r.id = given + i PROVE r = next[i]
            OBVIOUS
        <3>2. r \notin Copies
            BY ZenonT(30), <2>4, <2>28, <3>1
        <3>3. PICK j \in 1 .. Len(next) : next[j] = r
            BY ZenonT(30), <2>26, <2>27, <3>2
        <3>4. given + j = given + i
            BY ZenonT(30), <2>2, <3>1, <3>3
        <3>5. Len(next) \in Nat
            BY SMTT(20), <2>2
        <3>6. i = j
            BY SMTT(20), <1>2, <3>4, <3>5
        <3> QED BY <3>3, <3>6
    <2>30. \A r \in Copies' : r.id \in 1 .. given => r \in Copies
        <3>1. ASSUME NEW r \in Range(next) PROVE \E i \in 1 .. Len(next) : r.id = given + i
            <4>1. PICK i \in 1 .. Len(next) : next[i] = r
                BY <2>26
            <4> QED BY <2>2, <4>1
        <3>2. \A r \in Range(next) : r.id \notin 1 .. given
            BY ZenonT(30), <2>4, <3>1
        <3> QED BY <2>27, <3>2
    <2>31. CopiesAgree'
        <3>1. ASSUME NEW r \in Copies', NEW s \in Copies', r.id = s.id PROVE SameFact(r, s)
            <4>1. CASE r \in Copies
                <5>1. s \in Copies
                    BY ZenonT(30), <2>28, <2>30, <3>1, <4>1
                <5> QED BY ZenonT(30), <3>1, <4>1, <5>1 DEF ChainInv, CopiesAgree
            <4>2. CASE r \notin Copies
                <5>1. PICK i \in 1 .. Len(next) : next[i] = r
                    BY ZenonT(30), <2>26, <2>27, <4>2
                <5>2. s.id = given + i
                    BY ZenonT(30), <2>2, <3>1, <5>1
                <5>3. s = r
                    BY ZenonT(30), <2>29, <5>1, <5>2
                <5> QED BY <5>3 DEF SameFact
            <4> QED BY ZenonT(30), <4>1, <4>2
        <3>2. ASSUME NEW r \in Copies' PROVE r.logical \in born' /\ (r.until = None \/ r.from <= r.until)
            <4>1. CASE r \in Copies
                BY ZenonT(30), <1>1, <4>1 DEF ChainInv, CopiesAgree
            <4>2. CASE r \notin Copies
                <5>1. PICK i \in 1 .. Len(next) : next[i] = r
                    BY ZenonT(30), <2>26, <2>27, <4>2
                <5>2. r.logical = call[c].on[i] /\ r.until = None
                    BY ZenonT(30), <2>2, <5>1
                <5>3. \A j \in 1 .. Len(call[c].on) : call[c].on[j] \in Range(call[c].on)
                    <6>1. \A z : z \in Range(call[c].on) <=> \E j \in 1 .. Len(call[c].on) : call[c].on[j] = z
                        BY ZenonT(30), <2>3, RangeFacts
                    <6> QED BY <6>1
                <5> QED BY ZenonT(30), <1>1, <2>2, <2>3, <5>2, <5>3
            <4> QED BY ZenonT(30), <4>1, <4>2
        <3> QED BY ZenonT(30), <3>1, <3>2 DEF CopiesAgree, SameFact
    <2>32. PICK w : w = Envelope(Kind(call[c].op), call[c].on, Ids(Range(call[c].prior)), IdSeq(next))
        OBVIOUS
    <2>33. PICK q : q = IdSeq(next)
        OBVIOUS
    <2>34. q \in Seq(1 .. given') /\ Len(q) = Len(next) /\ \A i \in 1 .. Len(next) : q[i] = given + i
        <3>1. q = [i \in 1 .. Len(next) |-> next[i].id]
            BY <2>33 DEF IdSeq
        <3>2. q \in [1 .. Len(next) -> 1 .. given'] /\ \A i \in 1 .. Len(next) : q[i] = given + i
            BY ZenonT(30), <2>2, <2>4, <3>1
        <3>3. Len(next) \in Nat
            BY SMT, <2>2
        <3>4. \A S : \A k \in Nat : \A z \in [1 .. k -> S] : z \in Seq(S) /\ Len(z) = k
            BY SMTT(20)
        <3> QED BY ZenonT(30), <3>2, <3>3, <3>4
    <2>35. Ids(Range(call[c].prior)) \subseteq 1 .. given
        <3>1. Range(call[c].prior) \subseteq Revision
            BY ZenonT(30), <2>3, RangeFacts
        <3> QED BY <3>1 DEF Ids, Revision
    <2>36. w.kind = Kind(call[c].op) /\ w.kind # "purge" /\ w.on = call[c].on /\ w.prior = Ids(Range(call[c].prior)) /\ w.next = q
        <3>1. w.kind = Kind(call[c].op) /\ w.on = call[c].on /\ w.prior = Ids(Range(call[c].prior)) /\ w.next = q
            BY ZenonT(30), <2>32, <2>33 DEF Envelope
        <3>2. Kind(call[c].op) # "purge"
            BY <2>3, SMTT(20) DEF Kind, Edits
        <3> QED BY ZenonT(30), <3>1, <3>2
    <2>37. w \in MutationEnvelope'
        <3>1. Kind(call[c].op) \in {"create", "successor", "merge", "retract", "purge"}
            BY <2>3, SMTT(20) DEF Kind, Edits
        <3>2. Ids(Range(call[c].prior)) \subseteq 1 .. given'
            BY ZenonT(30), <2>4, <2>35
        <3> QED BY ZenonT(30), <2>3, <2>32, <2>33, <2>34, <3>1, <3>2 DEF Envelope, MutationEnvelope
    <2>38. /\ envelopes' \in Seq(MutationEnvelope') /\ Len(envelopes') = Len(envelopes) + 1
           /\ envelopes'[Len(envelopes) + 1] = w
           /\ \A e \in 1 .. Len(envelopes) : envelopes'[e] = envelopes[e]
           /\ \A e \in 1 .. Len(envelopes) + 1 : e \in 1 .. Len(envelopes) \/ e = Len(envelopes) + 1
        <3>1. PICK S : S = MutationEnvelope
            OBVIOUS
        <3>2. PICK T : T = MutationEnvelope'
            OBVIOUS
        <3>3. S \subseteq T /\ envelopes \in Seq(S) /\ w \in T
            BY ZenonT(30), <1>2, <2>8, <2>37, <3>1, <3>2
        <3>4. /\ Append(envelopes, w) \in Seq(T) /\ Len(Append(envelopes, w)) = Len(envelopes) + 1
              /\ Append(envelopes, w)[Len(envelopes) + 1] = w
              /\ \A e \in 1 .. Len(envelopes) : Append(envelopes, w)[e] = envelopes[e]
              /\ \A e \in 1 .. Len(envelopes) + 1 : e \in 1 .. Len(envelopes) \/ e = Len(envelopes) + 1
            BY ONLY <3>3, AppendFacts, ZenonT(30)
        <3>5. envelopes' = Append(envelopes, w)
            BY ZenonT(30), <2>1, <2>32
        <3> QED BY ZenonT(30), <3>2, <3>4, <3>5
    <2>39. ASSUME NEW e \in 1 .. Len(envelopes) PROVE EnvelopeOK(e)'
        BY ZenonT(30), <1>1, <1>2, <2>30, <2>38, <2>39, OldEnvelope
    <2>40. ASSUME NEW e, e = Len(envelopes) + 1 PROVE EnvelopeOK(e)'
        <3>1. envelopes'[e] = w
            BY ZenonT(30), <2>38, <2>40
        <3>2. q # <<>>
            <4>1. Len(<<>>) \notin {1, 2}
                BY SMTT(20)
            <4> QED BY ZenonT(30), <2>2, <2>34, <4>1
        <3>3. ASSUME NEW r \in Copies', r.id \in Ids(Range(call[c].prior))
              PROVE  \E i \in 1 .. Len(q) : \A s \in Copies' : s.id = q[i] => s.logical = r.logical /\ s.version = r.version + 1
            <4>1. PICK p \in Range(call[c].prior) : p.id = r.id
                BY <3>3 DEF Ids
            <4>2. PICK i \in 1 .. Len(call[c].prior) : call[c].prior[i] = p
                BY ZenonT(30), <2>3, RangeFacts
            <4>3. p \in Copies /\ r \in Copies
                BY ZenonT(30), <1>2, <2>28, <2>30, <4>1, CopiesFacts
            <4>4. SameFact(r, p)
                BY ZenonT(30), <4>1, <4>3 DEF ChainInv, CopiesAgree
            <4>5. call[c].op # "Create"
                BY SMTT(20), <2>3, <4>2 DEF ChainsOK
            <4>6. i \in 1 .. Len(next) /\ i \in 1 .. Len(q)
                BY ZenonT(30), <2>2, <2>34, <4>5
            <4>7. next[i].logical = p.logical /\ next[i].version = p.version + 1
                BY ZenonT(30), <2>2, <2>3, <4>2, <4>5, <4>6 DEF ChainsOK
            <4>8. ASSUME NEW s \in Copies', s.id = q[i] PROVE s.logical = r.logical /\ s.version = r.version + 1
                <5>1. s = next[i]
                    BY ZenonT(30), <2>29, <2>34, <4>6, <4>8
                <5> QED BY ZenonT(30), <4>4, <4>7, <5>1 DEF SameFact
            <4> QED BY ZenonT(30), <4>6, <4>8
        <3>4. ASSUME NEW r \in Copies', NEW s \in Copies', {r.id, s.id} \subseteq Range(q) PROVE r.from = s.from
            <4>1. \A z \in Copies' : z.id \in Range(q) => z.from = next[1].from
                <5>1. SUFFICES ASSUME NEW z \in Copies', z.id \in Range(q) PROVE z.from = next[1].from
                    OBVIOUS
                <5>2. PICK i \in 1 .. Len(q) : q[i] = z.id
                    BY ZenonT(30), <2>34, <5>1, RangeFacts
                <5>3. i \in 1 .. Len(next) /\ z.id = given + i
                    BY <2>34, <5>2
                <5>4. z = next[i]
                    BY <2>29, <5>3
                <5> QED BY ZenonT(30), <2>2, <5>3, <5>4
            <4>2. r.id \in Range(q) /\ s.id \in Range(q)
                BY <3>4
            <4>3. r.from = next[1].from /\ s.from = next[1].from
                BY <4>1, <4>2
            <4> QED BY <4>3
        <3>5. envelopes'[e].kind # "purge" /\ envelopes'[e].prior = Ids(Range(call[c].prior)) /\ envelopes'[e].next = q
            BY ZenonT(30), <2>36, <3>1
        <3>6. /\ envelopes'[e].next # <<>>
              /\ \A r \in Copies' : r.id \in envelopes'[e].prior =>
                    \E i \in 1 .. Len(envelopes'[e].next) :
                        \A s \in Copies' : s.id = envelopes'[e].next[i]
                                          => s.logical = r.logical /\ s.version = r.version + 1
              /\ \A r, s \in Copies' : {r.id, s.id} \subseteq Range(envelopes'[e].next) => r.from = s.from
            BY ZenonT(30), <3>2, <3>3, <3>4, <3>5
        <3>7. Len(q) = IF w.kind = "merge" THEN 2 ELSE 1
            <4>1. Len(q) = Len(call[c].on) /\ Len(call[c].on) = IF call[c].op = "Merge" THEN 2 ELSE 1
                BY ZenonT(30), <2>2, <2>3, <2>34 DEF ChainsOK
            <4>2. w.kind = "merge" <=> call[c].op = "Merge"
                <5>1. \A op \in Edits \cup {"Create"} : Kind(op) = "merge" <=> op = "Merge"
                    BY SMTT(20) DEF Kind, Edits
                <5> QED BY ZenonT(30), <2>3, <2>36, <5>1
            <4> QED BY ZenonT(30), <4>1, <4>2
        <3>8. ASSUME NEW r \in Copies', r.id \in Ids(Range(call[c].prior)) PROVE is_live(r)
            <4>1. PICK p \in Range(call[c].prior) : p.id = r.id
                BY <3>8 DEF Ids
            <4>2. PICK i \in 1 .. Len(call[c].prior) : call[c].prior[i] = p
                BY <2>3, RangeFacts
            <4>3. p \in Copies /\ r \in Copies
                BY <1>2, <2>28, <2>30, <4>1, CopiesFacts
            <4>4. SameFact(r, p)
                BY <4>1, <4>3 DEF ChainInv, CopiesAgree
            <4>5. is_live(p)
                BY <2>3, <4>2 DEF ChainsOK
            <4> QED BY ZenonT(30), <4>4, <4>5 DEF SameFact, is_live
        <3>9. ASSUME w.kind = "merge", NEW r \in Copies', r.id = q[2]
              PROVE  r.merged_into # None /\ r.logical = call[c].on[2]
            <4>1. 2 \in 1 .. Len(q) /\ 2 \in 1 .. Len(next) /\ 2 > 1
                BY SMTT(20), <2>2, <2>34, <3>7, <3>9
            <4>2. r = next[2]
                BY ZenonT(30), <2>29, <2>34, <3>9, <4>1
            <4>3. r.merged_into = call[c].on[1] /\ r.logical = call[c].on[2]
                BY ZenonT(30), <2>2, <4>1, <4>2
            <4>4. call[c].on[1] \in Memories
                BY ONLY <2>2, <2>3, <4>1, SMTT(20)
            <4> QED BY ZenonT(30), <4>3, <4>4, MemoriesAssumption
        <3>10. NamesOK(e)'
            <4>1. Len(call[c].on) = Len(q)
                BY ZenonT(30), <2>2, <2>34
            <4>2. envelopes'[e].on = call[c].on /\ envelopes'[e].kind = w.kind
                BY <2>36, <3>1
            <4> QED BY ZenonT(30), <3>5, <3>7, <3>8, <3>9, <4>1, <4>2 DEF NamesOK
        <3> QED BY ZenonT(30), <3>5, <3>6, <3>10 DEF EnvelopeOK
    <2>41. \A e \in 1 .. Len(envelopes') : EnvelopeOK(e)'
        BY ZenonT(30), <2>38, <2>39, <2>40
    <2>42. Typed'
        <3>1. nodes' \subseteq 1 .. given' /\ cache' \in [Memories -> Revision' \cup {None}]
              /\ phase' = "up" /\ redo' = NoRedo
            BY ZenonT(30), <1>1, <1>2, <2>4, <2>5
        <3>2. redo' \in [env : Nat, todo : SUBSET Revision', held : SUBSET Revision', outcome : {"applied", "failed"}]
            BY <3>1 DEF NoRedo
        <3>3. \A m \in Memories : cache'[m] = None \/ cache'[m].logical = m
            BY <1>1, <1>2
        <3>4. born' \subseteq Memories /\ purging' \cup torn' \subseteq born'
            BY <1>1, <1>2
        <3> QED BY ZenonT(30), <2>4, <2>18, <2>23, <2>38, <3>1, <3>2, <3>3, <3>4 DEF Typed
    <2> QED BY ZenonT(30), <2>24, <2>25, <2>31, <2>41, <2>42 DEF ChainInv
<1> QED BY <1>3, <1>4 DEF Intend

-----------------------------------------------------------------------------
(* What the steps of a recovery have in common. *)

LEMMA RecoveryStep ==
    ASSUME ChainInv, phase = "opening", UNCHANGED <<phase, call, given, born, purging>>,
           Steady, \A r \in rows' : Derived(r), RowsOK', RedoOK',
           redo' \in [env : Nat, todo : SUBSET Revision, held : SUBSET Revision, outcome : {"applied", "failed"}],
           \A r \in redo'.todo \cup redo'.held : Derived(r),
           \/ envelopes' = envelopes
           \/ \E e \in Nat, s \in {"applied", "failed"} : Set(e, s),
           nodes' \subseteq 1 .. given, torn' \subseteq born,
           cache' \in [Memories -> Revision \cup {None}],
           \A m \in Memories : cache'[m] # None => cache'[m] \in Copies /\ cache'[m].logical = m
    PROVE  ChainInv'
<1>1. /\ Typed /\ Revision' = Revision /\ Call' = Call /\ given \in Nat /\ call \in [Callers -> Call]
      /\ \A c \in Callers : call[c] = Idle
    BY DEF ChainInv, Typed, Revision, Call
<1>2. \A c \in Callers : Range(call'[c].prior) \cup Range(call'[c].next) \subseteq Copies
    BY <1>1, CopiesFacts
<1>3. AllDerived
    BY <1>2, OldCopies DEF AllDerived
<1>4. rows' \subseteq Revision'
    BY DEF Derived
<1>5. envelopes' \in Seq(MutationEnvelope') /\ \A e \in 1 .. Len(envelopes') : EnvelopeOK(e)'
    BY <1>3, EnvelopesStay
<1>6. CopiesAgree'
    BY <1>3, CopiesStillAgree
<1>7. \A c \in Callers : CallOK(c)'
    BY <1>1, <1>4, CallStays
<1>8. \A m \in Memories : cache'[m] = None \/ cache'[m].logical = m
    OBVIOUS
<1>9. Typed'
    <2>1. /\ given' \in Nat /\ nodes' \subseteq 1 .. given' /\ rows' \subseteq Revision'
          /\ cache' \in [Memories -> Revision' \cup {None}] /\ call' \in [Callers -> Call']
          /\ redo' \in [env : Nat, todo : SUBSET Revision', held : SUBSET Revision', outcome : {"applied", "failed"}]
          /\ \A c \in Callers : call'[c] = Idle
        BY <1>1, <1>4
    <2>2. phase' = "opening" /\ born' \subseteq Memories /\ purging' \cup torn' \subseteq born'
        BY <1>1 DEF Typed
    <2> QED BY <1>5, <1>8, <2>1, <2>2 DEF Typed
<1> QED BY ZenonT(30), <1>5, <1>6, <1>7, <1>9 DEF ChainInv

(* While the database opens no call holds a row.                            *)
LEMMA HandIsHeld ==
    ASSUME ChainInv, phase = "opening"
    PROVE  InHand = redo.held
<1>1. \A c \in Callers : call[c].pc # "rewrite"
    <2>1. \A c \in Callers : call[c] = Idle
        BY DEF ChainInv, Typed
    <2> QED BY <2>1, IdleFacts
<1> QED BY <1>1, HandCases

LEMMA NextHandIsHeld ==
    ASSUME \A c \in Callers : call'[c] = Idle
    PROVE  InHand' = redo'.held
<1>1. \A c \in Callers : call'[c].pc # "rewrite"
    BY IdleFacts
<1> QED BY <1>1, NextHandCases

(* What a recovery holds at rest, and what it finds.                        *)
LEMMA OpeningFacts ==
    ASSUME ChainInv, phase = "opening"
    PROVE  /\ Typed /\ given \in Nat /\ rows \subseteq Revision /\ rows \subseteq Copies /\ nodes \subseteq 1 .. given
           /\ cache \in [Memories -> Revision \cup {None}] /\ torn \subseteq born /\ born \subseteq Memories
           /\ \A m \in Memories : cache[m] # None => cache[m] \in Copies /\ cache[m].logical = m
           /\ \A c \in Callers : call[c] = Idle
           /\ redo \in [env : Nat, todo : SUBSET Revision, held : SUBSET Revision, outcome : {"applied", "failed"}]
           /\ redo.todo \cup redo.held \subseteq Copies /\ redo.held \subseteq Copies
BY CopiesFacts DEF ChainInv, Typed

(* A head replaces the cached one of its chain.                             *)
LEMMA CachedCopies ==
    ASSUME ChainInv, phase = "opening", NEW S, S \subseteq rows, cache' = CachedAll(cache, S)
    PROVE  /\ cache' \in [Memories -> Revision \cup {None}]
           /\ \A m \in Memories : cache'[m] # None => cache'[m] \in Copies /\ cache'[m].logical = m
<1>1. given \in Nat /\ cache \in [Memories -> Revision \cup {None}] /\ S \subseteq Revision /\ S \subseteq Copies
    BY OpeningFacts
<1>2. /\ CachedAll(cache, S) \in [Memories -> Revision \cup {None}]
      /\ \A m \in Memories : \/ CachedAll(cache, S)[m] = cache[m]
                             \/ CachedAll(cache, S)[m] \in S /\ CachedAll(cache, S)[m].logical = m
    BY <1>1, CachedFacts, SMT
<1>3. \A m \in Memories : cache[m] # None => cache[m] \in Copies /\ cache[m].logical = m
    BY OpeningFacts
<1> QED BY <1>1, <1>2, <1>3

LEMMA EvictedCopies ==
    ASSUME ChainInv, phase = "opening", NEW n \in Memories, cache' = Evicted(n)
    PROVE  /\ cache' \in [Memories -> Revision \cup {None}]
           /\ \A m \in Memories : cache'[m] # None => cache'[m] \in Copies /\ cache'[m].logical = m
<1>1. /\ cache \in [Memories -> Revision \cup {None}]
      /\ \A m \in Memories : cache[m] # None => cache[m] \in Copies /\ cache[m].logical = m
    BY OpeningFacts
<1>2. /\ cache' \in [Memories -> Revision \cup {None}]
      /\ \A m \in Memories : cache'[m] = None \/ cache'[m] = cache[m]
    BY <1>1 DEF Evicted
<1> QED BY <1>1, <1>2

LEMMA RedoFacts ==
    ASSUME NEW e, NEW todo, NEW outcome, Redo(e, todo, outcome)
    PROVE  redo'.env = e /\ redo'.todo = todo /\ redo'.held = {} /\ redo'.outcome = outcome
           /\ redo' = [env |-> e, todo |-> todo, held |-> {}, outcome |-> outcome]
BY DEF Redo

(* What a recovery has to close stays so.                                   *)
LEMMA RedoStays ==
    ASSUME ChainInv, Steady, rows' \subseteq Revision', given' \in Nat,
           redo'.todo \cup redo'.held \subseteq redo.todo \cup redo.held
    PROVE  \A r \in redo'.todo \cup redo'.held : Superseded(r)' /\ Shadowed(r, r.until)'
<1> SUFFICES ASSUME NEW r \in redo'.todo \cup redo'.held PROVE Superseded(r)' /\ Shadowed(r, r.until)'
    OBVIOUS
<1>1. r \in redo.todo \cup redo.held
    OBVIOUS
<1>2. Superseded(r) /\ Shadowed(r, r.until) /\ Typed
    BY <1>1 DEF ChainInv, RedoOK
<1>3. r.version \in Nat
    <2>1. r \in Revision /\ given \in Nat
        BY <1>1, <1>2, CopiesFacts DEF Typed
    <2>2. r.version \in 1 .. given
        BY <2>1 DEF Revision
    <2> QED BY SMT, <2>1, <2>2
<1> QED BY <1>2, <1>3, SupersededStays, ShadowedStays

(* Nothing is stored or taken up, or the rows of a purged chain go.         *)
LEMMA ReconcileQuiet ==
    ASSUME ChainInv, phase = "opening", redo.env = 0, UNCHANGED <<phase, call, given, born, purging, torn>>,
           \/ rows' = rows
           \/ \E m \in purging : rows' = rows \ Of(m),
           \/ redo' = redo
           \/ \E e \in Nat, outcome \in {"applied", "failed"} : e # 0 /\ Redo(e, {}, outcome),
           \/ envelopes' = envelopes
           \/ \E e \in Nat, s \in {"applied", "failed"} : Set(e, s),
           nodes' \subseteq 1 .. given,
           \/ cache' = cache
           \/ \E m \in Memories : cache' = Evicted(m)
    PROVE  ChainInv'
<1>1. redo.held = {} /\ RedoOK
    BY DEF ChainInv, RedoOK
<1>2. InHand = {} /\ InHand \subseteq InHand'
    BY <1>1, HandIsHeld
<1>3. Steady
    <2>1. CASE rows' = rows
        BY <1>2, <2>1, SteadyRows DEF ChainInv
    <2>2. CASE \E m \in purging : rows' = rows \ Of(m)
        BY <1>2, <2>2, PurgeSteady
    <2> QED BY <2>1, <2>2
<1>4. rows' \subseteq rows
    OBVIOUS
<1>5. rows \subseteq Copies /\ Typed /\ torn' \subseteq born /\ redo.todo \cup redo.held \subseteq Copies
    BY OpeningFacts
<1>6. \A r \in rows' : Derived(r)
    BY <1>4, <1>5, OldCopies
<1>7. rows' \subseteq Revision' /\ RowsOK' /\ given' \in Nat
    BY <1>3, <1>4, <1>5, <1>6, RowsStay DEF Derived, Typed
<1>8. /\ redo' \in [env : Nat, todo : SUBSET Revision, held : SUBSET Revision, outcome : {"applied", "failed"}]
      /\ \A r \in redo'.todo \cup redo'.held : Derived(r)
      /\ RedoOK'
    <2>1. CASE redo' = redo
        <3>1. redo \in [env : Nat, todo : SUBSET Revision, held : SUBSET Revision, outcome : {"applied", "failed"}]
            BY OpeningFacts
        <3>2. \A r \in redo'.todo \cup redo'.held : Derived(r)
            BY <1>5, <2>1, OldCopies
        <3>3. \A r \in redo'.todo \cup redo'.held : Superseded(r)' /\ Shadowed(r, r.until)'
            BY <1>3, <1>7, <2>1, RedoStays
        <3>4. RedoOK'
            BY <1>1, <2>1, <3>3 DEF RedoOK
        <3> QED BY <2>1, <3>1, <3>2, <3>4
    <2>2. CASE \E e \in Nat, outcome \in {"applied", "failed"} : e # 0 /\ Redo(e, {}, outcome)
        <3>1. PICK e \in Nat, outcome \in {"applied", "failed"} : e # 0 /\ Redo(e, {}, outcome)
            BY <2>2
        <3>2. redo' = [env |-> e, todo |-> {}, held |-> {}, outcome |-> outcome] /\ redo'.todo = {} /\ redo'.held = {}
            BY <3>1, RedoFacts
        <3> QED BY <3>2 DEF RedoOK
    <2> QED BY <2>1, <2>2
<1>9. /\ cache' \in [Memories -> Revision \cup {None}]
      /\ \A m \in Memories : cache'[m] # None => cache'[m] \in Copies /\ cache'[m].logical = m
    BY OpeningFacts, EvictedCopies
<1> QED BY ZenonT(30), <1>3, <1>5, <1>6, <1>7, <1>8, <1>9, RecoveryStep


LEMMA PendingFacts ==
    ASSUME Typed, NEW e \in Pending
    PROVE  /\ e \in 1 .. Len(envelopes) /\ e \in Nat /\ e # 0 /\ envelopes[e] \in MutationEnvelope
           /\ envelopes[e].next \in Seq(1 .. given)
<1>1. e \in 1 .. Len(envelopes) /\ envelopes \in Seq(MutationEnvelope)
    BY DEF Pending, Typed
<1>2. e \in Nat /\ e # 0 /\ envelopes[e] \in MutationEnvelope
    BY SMT, <1>1
<1> QED BY <1>1, <1>2 DEF MutationEnvelope

(* What a durable edit has to close is superseded, and hidden from the end  *)
(* of its interval on.                                                      *)
LEMMA ToCloseFacts ==
    ASSUME ChainInv, given' = given, NEW e \in Pending, Whole(e), envelopes[e].kind # "purge", NEW d \in ToClose(e)
    PROVE  d \in Revision /\ Derived(d) /\ Superseded(d) /\ Shadowed(d, d.until)
<1>1. /\ Typed /\ e \in 1 .. Len(envelopes) /\ given \in Nat /\ rows \subseteq Copies /\ rows \subseteq Revision
      /\ envelopes[e].next \in Seq(1 .. given)
    BY PendingFacts, CopiesFacts DEF ChainInv, Typed
<1>2. PICK prior : prior = envelopes[e].prior
    OBVIOUS
<1>3. PICK next : next = envelopes[e].next
    OBVIOUS
<1>4. /\ next # <<>>
      /\ \A r \in Copies : r.id \in prior =>
            \E i \in 1 .. Len(next) :
                \A s \in Copies : s.id = next[i] => s.logical = r.logical /\ s.version = r.version + 1
      /\ \A r, s \in Copies : {r.id, s.id} \subseteq Range(next) => r.from = s.from
    <2>1. EnvelopeOK(e)
        BY <1>1 DEF ChainInv
    <2> QED BY <1>2, <1>3, <2>1 DEF EnvelopeOK
<1>5. \A i \in 1 .. Len(next) : next[i] \in Range(next)
    <2>1. \A z : z \in Range(next) <=> \E i \in 1 .. Len(next) : next[i] = z
        <3>1. PICK T : next \in Seq(T)
            BY <1>1, <1>3
        <3> QED BY ONLY <3>1, RangeFacts, Zenon
    <2> QED BY <2>1
<1>6. \A n \in Range(next) : \E s \in rows : s.id = n
    BY <1>3 DEF Whole, Named, Ids
<1>7. 1 \in 1 .. Len(next)
    BY SMTT(20), <1>1, <1>3, <1>4
<1>8. PICK lead : lead = CHOOSE r \in rows : r.id = next[1]
    OBVIOUS
<1>9. lead \in rows /\ lead.id = next[1]
    BY <1>5, <1>6, <1>7, <1>8
<1>10. PICK r \in rows : r.id \in prior /\ d = Closed(r, lead.from)
    BY <1>2, <1>3, <1>8 DEF ToClose
<1>11. lead.from \in Times /\ r \in Revision /\ r \in Copies
    BY <1>1, <1>9 DEF Revision
<1>12. d \in Revision /\ SameFact(d, r) /\ d.until \in Times /\ lead.from <= d.until
    BY <1>10, <1>11, ClosedFacts
<1>13. Derived(d)
    BY <1>10, <1>11, ClosedCopies
<1>14. PICK i \in 1 .. Len(next) :
           \A s \in Copies : s.id = next[i] => s.logical = r.logical /\ s.version = r.version + 1
    BY <1>4, <1>10, <1>11
<1>15. PICK s \in rows : s.id = next[i]
    BY <1>5, <1>6, <1>14
<1>16. s.logical = d.logical /\ s.version = d.version + 1
    BY <1>1, <1>12, <1>14, <1>15 DEF SameFact
<1>17. s.version > d.version
    <2>1. d.version \in 1 .. given
        BY <1>12 DEF Revision
    <2> QED BY SMTT(20), <1>1, <1>16, <2>1
<1>18. s.from = lead.from
    <2>1. s.id \in Range(next) /\ lead.id \in Range(next)
        BY ZenonT(30), <1>5, <1>7, <1>9, <1>14, <1>15
    <2>2. s \in Copies /\ lead \in Copies
        BY <1>1, <1>9, <1>15
    <2> QED BY <1>4, <2>1, <2>2
<1>19. s.from <= d.until
    BY <1>12, <1>18
<1>20. Superseded(d)
    BY <1>15, <1>16, <1>17 DEF Superseded
<1>21. Shadowed(d, d.until)
    BY <1>15, <1>16, <1>17, <1>19 DEF Shadowed
<1> QED BY <1>12, <1>13, <1>20, <1>21

=============================================================================
