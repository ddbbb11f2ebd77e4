----------------------- MODULE SemanticRevisionProofs -----------------------
(***************************************************************************)
(* Proofs about SemanticRevision: the recovery, a crash and an open        *)
(* preserve ChainInv, with the theorems that follow; and the steps that    *)
(* leave the graph alone or add a node preserve NodeInv.                   *)
(***************************************************************************)
EXTENDS SemanticCallProofs

(* The default prover; leaves with arithmetic name SMT.                     *)
USE Zenon

(* The steps of a recovery. *)

LEMMA ReconcileWrite ==
    ASSUME ChainInv, phase = "opening", redo.env = 0, NEW e \in Pending,
           UNCHANGED <<phase, call, given, born, purging, torn, rows, envelopes>>,
           Whole(e), envelopes[e].kind # "purge", NEW S, S \subseteq rows, cache' = CachedAll(cache, S),
           Redo(e, ToClose(e), "applied"), nodes' \subseteq 1 .. given
    PROVE  ChainInv'
<1>1. redo.held = {} /\ Typed /\ given' \in Nat /\ rows \subseteq Copies /\ torn' \subseteq born /\ given \in Nat
    BY OpeningFacts DEF ChainInv, RedoOK
<1>2. InHand \subseteq InHand'
    BY <1>1, HandIsHeld
<1>3. Steady
    BY <1>1, <1>2, SteadyRows
<1>4. \A r \in rows' : Derived(r)
    BY <1>1, OldCopies
<1>5. rows' \subseteq Revision' /\ RowsOK'
    BY <1>3, <1>4, RowsStay DEF Derived
<1>6. \A d \in ToClose(e) : d \in Revision /\ Derived(d) /\ Superseded(d) /\ Shadowed(d, d.until)
    BY ToCloseFacts
<1>7. PICK todo : todo = ToClose(e)
    OBVIOUS
<1>8. /\ redo' = [env |-> e, todo |-> todo, held |-> {}, outcome |-> "applied"]
      /\ redo'.todo = todo /\ redo'.held = {} /\ redo'.env = e
    BY <1>7, RedoFacts
<1>9. \A d \in todo : d \in Revision /\ Derived(d) /\ Superseded(d) /\ Shadowed(d, d.until)
    BY <1>6, <1>7
<1>10. \A d \in todo : Superseded(d)' /\ Shadowed(d, d.until)'
    <2> SUFFICES ASSUME NEW d \in todo PROVE Superseded(d)' /\ Shadowed(d, d.until)'
        OBVIOUS
    <2>1. d.version \in Nat
        <3>1. d.version \in 1 .. given
            BY <1>9 DEF Revision
        <3> QED BY SMTT(20), <1>1, <3>1
    <2> QED BY ZenonT(30), <1>1, <1>3, <1>5, <1>9, <2>1, SupersededStays, ShadowedStays
<1>11. RedoOK'
    BY <1>8, <1>10, PendingFacts, <1>1 DEF RedoOK
<1>12. /\ redo' \in [env : Nat, todo : SUBSET Revision, held : SUBSET Revision, outcome : {"applied", "failed"}]
       /\ \A r \in redo'.todo \cup redo'.held : Derived(r)
    <2>1. e \in Nat /\ todo \subseteq Revision
        BY <1>1, <1>9, PendingFacts
    <2> QED BY <1>8, <1>9, <2>1
<1>13. /\ cache' \in [Memories -> Revision \cup {None}]
       /\ \A m \in Memories : cache'[m] # None => cache'[m] \in Copies /\ cache'[m].logical = m
    BY CachedCopies
<1> QED BY ZenonT(30), <1>1, <1>3, <1>4, <1>5, <1>11, <1>12, <1>13, RecoveryStep

LEMMA ReconcileStep ==
    ASSUME ChainInv, NEW e \in Pending, Reconcile(e)
    PROVE  ChainInv'
<1>1. phase = "opening" /\ redo.env = 0 /\ UNCHANGED <<phase, call, given, born, purging, torn>>
    BY DEF Reconcile, ghosts
<1>2. /\ Typed /\ e \in 1 .. Len(envelopes) /\ e \in Nat /\ e # 0 /\ EnvelopeOK(e) /\ nodes \subseteq 1 .. given
      /\ given \in Nat /\ rows \subseteq Revision /\ purging \subseteq Memories
    BY PendingFacts DEF ChainInv, Typed
<1>3. envelopes[e].kind = "purge" => envelopes[e].on[1] \in purging
    BY <1>2 DEF EnvelopeOK
<1>4. CASE GiveUp(e) /\ UNCHANGED envelopes
    <2>1. nodes' \subseteq 1 .. given /\ rows' = rows /\ cache' = cache /\ Redo(e, {}, "failed")
        BY <1>2, <1>4 DEF GiveUp
    <2> QED BY <1>1, <1>2, <1>4, <2>1, ReconcileQuiet
<1>5. CASE RedoWrite(e) /\ UNCHANGED envelopes
    <2>1. /\ Whole(e) /\ envelopes[e].kind # "purge" /\ cache' = CachedAll(cache, Heads(e))
          /\ Redo(e, ToClose(e), "applied") /\ rows' = rows
        BY <1>5 DEF RedoWrite
    <2>2. Heads(e) \subseteq rows
        <3>1. ASSUME NEW r \in Named(e) PROVE HeadOf(Of(r.logical)) \in rows
            <4>1. PICK S : S = Of(r.logical)
                OBVIOUS
            <4>2. S # {} /\ S \subseteq Revision /\ S \subseteq rows
                BY <1>2, <3>1, <4>1 DEF Of, Named
            <4>3. HeadOf(S) \in S
                BY <1>2, <4>2, HeadFacts
            <4> QED BY <4>1, <4>2, <4>3
        <3> QED BY <3>1 DEF Heads
    <2>3. nodes' \subseteq 1 .. given
        <3>1. Ids(Named(e) \cap Heads(e)) \subseteq 1 .. given
            BY <1>2, <2>2 DEF Ids, Revision
        <3> QED BY <1>2, <1>5, <3>1 DEF RedoWrite
    <2> QED BY ZenonT(30), <1>1, <1>5, <2>1, <2>2, <2>3, ReconcileWrite
<1>6. CASE RedoRetract(e) /\ UNCHANGED envelopes
    <2>1. /\ Whole(e) /\ envelopes[e].kind # "purge" /\ cache' = CachedAll(cache, Named(e))
          /\ Redo(e, ToClose(e), "applied") /\ rows' = rows /\ nodes' \subseteq 1 .. given
        BY <1>2, <1>6 DEF RedoRetract
    <2>2. Named(e) \subseteq rows
        BY DEF Named
    <2> QED BY ZenonT(30), <1>1, <1>6, <2>1, <2>2, ReconcileWrite
<1>7. CASE RedoPurge(e) /\ UNCHANGED envelopes
    <2>1. PICK m : m = envelopes[e].on[1]
        OBVIOUS
    <2>2. m \in purging /\ m \in Memories
        BY <1>2, <1>3, <1>7, <2>1 DEF RedoPurge
    <2>3. /\ rows' = rows \ Of(m) /\ cache' = Evicted(m) /\ nodes' \subseteq 1 .. given /\ Redo(e, {}, "applied")
        BY <1>2, <1>7, <2>1 DEF RedoPurge
    <2> QED BY ZenonT(30), <1>1, <1>2, <1>7, <2>2, <2>3, ReconcileQuiet
<1>8. CASE Abandon(e)
    <2>1. PICK m : m = envelopes[e].on[1]
        OBVIOUS
    <2>2. /\ redo' = redo /\ Set(e, "failed") /\ nodes' \subseteq 1 .. given
          /\ \/ rows' = rows /\ cache' = cache
             \/ envelopes[e].kind = "purge" /\ rows' = rows \ Of(m) /\ cache' = Evicted(m)
        BY <1>2, <1>8, <2>1 DEF Abandon
    <2>3. CASE rows' = rows /\ cache' = cache
        BY ZenonT(30), <1>1, <1>2, <2>2, <2>3, ReconcileQuiet
    <2>4. CASE envelopes[e].kind = "purge" /\ rows' = rows \ Of(m) /\ cache' = Evicted(m)
        <3>1. m \in purging /\ m \in Memories
            BY <1>2, <1>3, <2>1, <2>4
        <3> QED BY ZenonT(30), <1>1, <1>2, <2>2, <2>4, <3>1, ReconcileQuiet
    <2> QED BY <2>2, <2>3, <2>4
<1> QED BY <1>4, <1>5, <1>6, <1>7, <1>8 DEF Reconcile


LEMMA RedoDeleteStep ==
    ASSUME ChainInv, RedoDelete
    PROVE  ChainInv'
<1>1. /\ phase = "opening" /\ redo.env # 0 /\ redo.held = {}
      /\ UNCHANGED <<nodes, envelopes, cache, call, phase, born, purging, torn, given>>
    BY DEF RedoDelete, ghosts, bounds
<1>2. PICK r \in redo.todo : /\ rows' = {s \in rows : s.id # r.id}
                            /\ redo' = [redo EXCEPT !.held = {r}, !.todo = @ \ {r}]
    BY DEF RedoDelete
<1>3. /\ Typed /\ rows \subseteq Copies /\ given' \in Nat /\ torn' \subseteq born /\ nodes' \subseteq 1 .. given
      /\ redo \in [env : Nat, todo : SUBSET Revision, held : SUBSET Revision, outcome : {"applied", "failed"}]
      /\ redo.todo \cup redo.held \subseteq Copies /\ \A c \in Callers : call'[c] = Idle
      /\ cache' \in [Memories -> Revision \cup {None}]
      /\ \A m \in Memories : cache'[m] # None => cache'[m] \in Copies /\ cache'[m].logical = m
    BY <1>1, OpeningFacts
<1>4. /\ redo'.held = {r} /\ redo'.todo = redo.todo \ {r} /\ redo'.env = redo.env
      /\ redo' \in [env : Nat, todo : SUBSET Revision, held : SUBSET Revision, outcome : {"applied", "failed"}]
    <2>1. PICK x : x = redo
        OBVIOUS
    <2>2. PICK y : y = redo'
        OBVIOUS
    <2>3. /\ x \in [env : Nat, todo : SUBSET Revision, held : SUBSET Revision, outcome : {"applied", "failed"}]
          /\ y = [x EXCEPT !.held = {r}, !.todo = x.todo \ {r}] /\ r \in x.todo
        BY ZenonT(30), <1>2, <1>3, <2>1, <2>2
    <2>4. y.held = {r} /\ y.todo = x.todo \ {r} /\ y.env = x.env
        BY ONLY <2>3, SMTT(20)
    <2>5. y \in [env : Nat, todo : SUBSET Revision, held : SUBSET Revision, outcome : {"applied", "failed"}]
        BY ONLY <2>3, Zenon
    <2> QED BY <2>1, <2>2, <2>4, <2>5
<1>5. InHand = {} /\ InHand' = {r}
    BY ZenonT(30), <1>1, <1>3, <1>4, HandIsHeld, NextHandIsHeld
<1>6. Superseded(r) /\ Shadowed(r, r.until) /\ r \in Copies
    BY <1>3 DEF ChainInv, RedoOK
<1>7. Steady
    <2>1. \E h \in InHand' : SameFact(h, r)
        BY <1>5 DEF SameFact
    <2>2. InHand \subseteq InHand'
        BY <1>5
    <2> QED BY ZenonT(30), <1>1, <1>2, <1>6, <2>1, <2>2, DeleteSteady
<1>8. rows' \subseteq rows
    BY <1>2
<1>9. \A s \in rows' : Derived(s)
    BY ZenonT(30), <1>1, <1>3, <1>8, OldCopies
<1>10. rows' \subseteq Revision' /\ RowsOK'
    BY ZenonT(30), <1>7, <1>8, <1>9, RowsStay DEF Derived
<1>11. redo'.todo \cup redo'.held \subseteq redo.todo \cup redo.held
    BY <1>4
<1>12. \A s \in redo'.todo \cup redo'.held : Derived(s)
    BY ZenonT(30), <1>1, <1>3, <1>11, OldCopies
<1>13. \A s \in redo'.todo \cup redo'.held : Superseded(s)' /\ Shadowed(s, s.until)'
    BY ZenonT(30), <1>3, <1>7, <1>10, <1>11, RedoStays
<1>14. RedoOK'
    BY ZenonT(30), <1>1, <1>4, <1>13 DEF RedoOK
<1> QED BY ZenonT(30), <1>1, <1>3, <1>4, <1>7, <1>9, <1>10, <1>12, <1>14, RecoveryStep

LEMMA RedoRewriteStep ==
    ASSUME ChainInv, RedoRewrite
    PROVE  ChainInv'
<1>1. /\ phase = "opening"
      /\ UNCHANGED <<nodes, envelopes, call, phase, born, purging, torn, given>>
      /\ redo' = [redo EXCEPT !.held = {}]
    BY DEF RedoRewrite, ghosts, bounds
<1>2. PICK r \in redo.held : rows' = rows \cup {r} /\ cache' = Evicted(r.logical)
    BY DEF RedoRewrite
<1>3. /\ Typed /\ rows \subseteq Copies /\ given' \in Nat /\ torn' \subseteq born /\ nodes' \subseteq 1 .. given
      /\ redo \in [env : Nat, todo : SUBSET Revision, held : SUBSET Revision, outcome : {"applied", "failed"}]
      /\ redo.todo \cup redo.held \subseteq Copies /\ \A c \in Callers : call'[c] = Idle
    BY ZenonT(30), <1>1, OpeningFacts
<1>4. r \in Copies /\ r.logical \in Memories
    <2>1. r \in Copies /\ r \in Revision
        BY <1>3, CopiesFacts
    <2> QED BY <2>1 DEF Revision
<1>5. /\ redo'.held = {} /\ redo'.todo = redo.todo
      /\ redo' \in [env : Nat, todo : SUBSET Revision, held : SUBSET Revision, outcome : {"applied", "failed"}]
    <2>1. PICK x : x = redo
        OBVIOUS
    <2>2. PICK y : y = redo'
        OBVIOUS
    <2>3. /\ x \in [env : Nat, todo : SUBSET Revision, held : SUBSET Revision, outcome : {"applied", "failed"}]
          /\ y = [x EXCEPT !.held = {}]
        BY ZenonT(30), <1>1, <1>3, <2>1, <2>2
    <2>4. y.held = {} /\ y.todo = x.todo
        BY ONLY <2>3, SMTT(20)
    <2>5. y \in [env : Nat, todo : SUBSET Revision, held : SUBSET Revision, outcome : {"applied", "failed"}]
        BY ONLY <2>3, Zenon
    <2> QED BY ZenonT(30), <2>1, <2>2, <2>4, <2>5
<1>6. InHand \subseteq rows'
    <2>1. \A s \in redo.held : s = r
        BY DEF ChainInv, RedoOK
    <2> QED BY ZenonT(30), <1>1, <1>2, <2>1, HandIsHeld
<1>7. Steady
    <2>1. \A s \in rows : s.version \in Nat
        <3>1. given \in Nat /\ \A s \in rows : s.version \in 1 .. given
            BY <1>3 DEF Typed, Revision
        <3> QED BY SMTT(20), <3>1
    <2>2. \A n \in Nat : n >= n
        BY SMTT(20)
    <2> QED BY ZenonT(30), <1>1, <1>2, <1>6, <2>1, <2>2 DEF Steady, HeadStays
<1>8. \A s \in rows' : Derived(s)
    BY ZenonT(30), <1>1, <1>2, <1>3, <1>4, OldCopies
<1>9. rows' \subseteq Revision'
    BY <1>8 DEF Derived
<1>10. RowsOK'
    <2>1. \A s \in rows' : s.until # None => Shadowed(s, s.until)
        BY <1>2 DEF ChainInv, RowsOK, RedoOK
    <2>2. ASSUME NEW s \in rows', s.until # None PROVE Shadowed(s, s.until)'
        BY ZenonT(30), <1>7, <2>1, <2>2, ShadowedStays
    <2> QED BY <2>2 DEF RowsOK
<1>11. redo'.todo \cup redo'.held \subseteq redo.todo \cup redo.held
    BY <1>5
<1>12. \A s \in redo'.todo \cup redo'.held : Derived(s)
    BY ZenonT(30), <1>1, <1>3, <1>11, OldCopies
<1>13. \A s \in redo'.todo \cup redo'.held : Superseded(s)' /\ Shadowed(s, s.until)'
    BY ZenonT(30), <1>3, <1>7, <1>9, <1>11, RedoStays
<1>14. RedoOK'
    BY <1>5, <1>13 DEF RedoOK
<1>15. /\ cache' \in [Memories -> Revision \cup {None}]
       /\ \A m \in Memories : cache'[m] # None => cache'[m] \in Copies /\ cache'[m].logical = m
    BY ZenonT(30), <1>1, <1>2, <1>4, EvictedCopies
<1> QED BY ZenonT(30), <1>1, <1>3, <1>5, <1>7, <1>8, <1>10, <1>12, <1>14, <1>15, RecoveryStep

LEMMA NoRedoFacts ==
    /\ NoRedo.held = {} /\ NoRedo.todo = {}
    /\ NoRedo \in [env : Nat, todo : SUBSET Revision, held : SUBSET Revision, outcome : {"applied", "failed"}]
<1>1. NoRedo.held = {} /\ NoRedo.todo = {}
    BY SMT DEF NoRedo
<1>2. NoRedo \in [env : Nat, todo : SUBSET Revision, held : SUBSET Revision, outcome : {"applied", "failed"}]
    <2>1. 0 \in Nat
        BY SMTT(20)
    <2> QED BY <2>1 DEF NoRedo
<1> QED BY <1>1, <1>2

(* The envelope is marked, and a row in hand is given up.                   *)
LEMMA RedoMarkStep ==
    ASSUME ChainInv, RedoMark \/ RedoFault
    PROVE  ChainInv'
<1>1. /\ phase = "opening" /\ redo' = NoRedo
      /\ UNCHANGED <<rows, nodes, cache, call, phase, born, purging, given>>
      /\ Set(redo.env, redo.outcome) \/ Set(redo.env, "failed")
      /\ (torn' = torn /\ redo.held = {}) \/ torn' = torn \cup Torn
    BY DEF RedoMark, RedoFault, ghosts, bounds
<1>2. /\ Typed /\ rows \subseteq Copies /\ given' \in Nat /\ torn \subseteq born /\ nodes' \subseteq 1 .. given
      /\ redo \in [env : Nat, todo : SUBSET Revision, held : SUBSET Revision, outcome : {"applied", "failed"}]
      /\ redo.held \subseteq Copies /\ \A c \in Callers : call'[c] = Idle
      /\ cache' \in [Memories -> Revision \cup {None}]
      /\ \A m \in Memories : cache'[m] # None => cache'[m] \in Copies /\ cache'[m].logical = m
    BY <1>1, OpeningFacts
<1>3. InHand = redo.held
    BY <1>1, HandIsHeld
<1>4. torn' \subseteq born /\ torn \subseteq torn' /\ \A r \in InHand : r.logical \in torn'
    <2>1. CASE torn' = torn /\ redo.held = {}
        BY <1>2, <1>3, <2>1
    <2>2. CASE torn' = torn \cup Torn
        <3>1. \A r \in InHand : r.logical \in born
            BY ZenonT(30), <1>2, <1>3 DEF ChainInv, CopiesAgree
        <3>2. \A m : m \in Torn <=> \E r \in InHand : m = r.logical
            BY DEF Torn
        <3>3. torn \subseteq born
            BY <1>2
        <3>4. \A r \in InHand : r.logical \in Torn
            BY <3>2
        <3>5. Torn \subseteq born
            BY <3>1, <3>2
        <3> QED BY ONLY <2>2, <3>3, <3>4, <3>5, ZenonT(30)
    <2> QED BY ZenonT(30), <1>1, <2>1, <2>2
<1>5. Steady
    <2>1. \A s \in rows : s.version \in Nat
        <3>1. given \in Nat /\ \A s \in rows : s.version \in 1 .. given
            BY <1>2 DEF Typed, Revision
        <3> QED BY SMTT(20), <3>1
    <2>2. \A n \in Nat : n >= n
        BY SMTT(20)
    <2> QED BY ZenonT(30), <1>1, <1>4, <2>1, <2>2 DEF Steady, HeadStays
<1>6. \A s \in rows' : Derived(s)
    BY <1>1, <1>2, OldCopies
<1>7. RowsOK'
    BY <1>1, <1>5, RowsStay
<1>8. /\ redo'.todo \cup redo'.held = {} /\ RedoOK'
      /\ redo' \in [env : Nat, todo : SUBSET Revision, held : SUBSET Revision, outcome : {"applied", "failed"}]
    BY <1>1, NoRedoFacts DEF RedoOK
<1>9. \E e \in Nat, s \in {"applied", "failed"} : Set(e, s)
    BY <1>1, <1>2
<1> QED BY ZenonT(30), <1>1, <1>2, <1>4, <1>5, <1>6, <1>7, <1>8, <1>9, RecoveryStep


(* The calls and the recovery are gone, the store stays.                    *)
LEMMA RestingStep ==
    ASSUME ChainInv, UNCHANGED <<rows, nodes, envelopes, born, purging, given>>,
           \A c \in Callers : call'[c] = Idle, call' \in [Callers -> Call'], redo' = NoRedo,
           cache' = cache \/ cache' = NoHeads, phase' \in {"down", "opening", "up"},
           torn \subseteq torn', torn' \subseteq born, \A r \in InHand : r.logical \in torn'
    PROVE  ChainInv'
<1>1. /\ Typed /\ Revision' = Revision /\ given' \in Nat /\ nodes' \subseteq 1 .. given' /\ rows' \subseteq Revision'
      /\ cache \in [Memories -> Revision \cup {None}] /\ born' \subseteq Memories /\ purging' \cup torn' \subseteq born'
      /\ \A m \in Memories : cache[m] = None \/ cache[m].logical = m
    BY DEF ChainInv, Typed, Revision
<1>2. /\ cache' \in [Memories -> Revision' \cup {None}]
      /\ \A m \in Memories : cache'[m] = None \/ cache'[m] = cache[m]
    BY <1>1 DEF NoHeads
<1>3. Steady
    <2>1. \A s \in rows : s.version \in Nat
        <3>1. given \in Nat /\ \A s \in rows : s.version \in 1 .. given
            BY <1>1 DEF Typed, Revision
        <3> QED BY SMTT(20), <3>1
    <2>2. \A n \in Nat : n >= n
        BY SMTT(20)
    <2> QED BY <2>1, <2>2 DEF Steady, HeadStays
<1>4. redo'.todo = {} /\ redo'.held = {}
    BY NoRedoFacts
<1>5. AllDerived
    <2>1. \A m \in Memories : cache'[m] # None => cache'[m] \in Copies
        BY <1>1, <1>2, CopiesFacts
    <2>2. rows' \subseteq Copies
        BY <1>1, CopiesFacts
    <2>3. \A c \in Callers : Range(call'[c].prior) \cup Range(call'[c].next) = {}
        BY IdleFacts
    <2> QED BY ZenonT(30), <1>4, <2>1, <2>2, <2>3, OldCopies DEF AllDerived
<1>6. CopiesAgree'
    BY <1>5, CopiesStillAgree
<1>7. RowsOK' /\ RedoOK'
    BY <1>3, <1>4, RowsStay DEF RedoOK
<1>8. \A c \in Callers : CallOK(c)'
    BY IdleFacts DEF CallOK, Stored
<1>9. envelopes' \in Seq(MutationEnvelope') /\ \A e \in 1 .. Len(envelopes') : EnvelopeOK(e)'
    BY <1>5, EnvelopesStay
<1>10. redo' \in [env : Nat, todo : SUBSET Revision', held : SUBSET Revision', outcome : {"applied", "failed"}]
    BY <1>1, NoRedoFacts
<1>11. \A m \in Memories : cache'[m] = None \/ cache'[m].logical = m
    BY <1>1, <1>2
<1>12. Typed'
    BY ZenonT(30), <1>1, <1>2, <1>9, <1>10, <1>11 DEF Typed
<1> QED BY ZenonT(30), <1>6, <1>7, <1>8, <1>9, <1>12 DEF ChainInv

LEMMA CrashOpenStep ==
    ASSUME ChainInv, Crash \/ Open \/ Opened
    PROVE  ChainInv'
<1>1. Typed /\ torn \subseteq born /\ call \in [Callers -> Call]
    BY DEF ChainInv, Typed
<1>2. CASE Crash
    <2>1. /\ UNCHANGED <<rows, nodes, envelopes, born, purging, given>> /\ phase' = "down"
          /\ torn' = torn \cup Torn /\ call' = [c \in Callers |-> Idle] /\ cache' = NoHeads /\ redo' = NoRedo
        BY <1>2 DEF Crash, store
    <2>2. \A c \in Callers : call'[c] = Idle
        BY <2>1
    <2>3. call' \in [Callers -> Call']
        <3>1. Call' = Call
            BY <2>1 DEF Call, Revision
        <3> QED BY <2>1, <3>1, IdleFacts
    <2>4. \A r \in InHand : r.logical \in torn' /\ r.logical \in born
        <3>1. \A r \in InHand : \E p \in Copies : SameFact(r, p)
            BY HandFacts
        <3> QED BY ZenonT(30), <2>1, <3>1 DEF Torn, SameFact, ChainInv, CopiesAgree
    <2>5. torn' \subseteq born
        BY <1>1, <2>1, <2>4 DEF Torn
    <2> QED BY ZenonT(30), <2>1, <2>2, <2>3, <2>4, <2>5, RestingStep
<1>3. CASE Open \/ Opened
    <2>1. /\ UNCHANGED <<rows, nodes, envelopes, born, purging, given, torn, call, cache, redo>>
          /\ phase' \in {"opening", "up"} /\ phase # "up"
        BY <1>3 DEF Open, Opened, store, ghosts, bounds
    <2>2. call' \in [Callers -> Call'] /\ \A c \in Callers : call'[c] = Idle
        <3>1. Call' = Call
            BY <2>1 DEF Call, Revision
        <3> QED BY <1>1, <2>1, <3>1 DEF Typed
    <2>3. redo = NoRedo
        <3>1. CASE Open
            BY <1>1, <3>1 DEF Open, Typed
        <3>2. CASE Opened
            BY <3>2 DEF Opened
        <3> QED BY <1>3, <3>1, <3>2
    <2>4. torn \subseteq torn' /\ torn' \subseteq born
        BY <1>1, <2>1
    <2>5. InHand = {}
        <3>1. redo.held = {}
            BY <2>3, NoRedoFacts
        <3>2. \A c \in Callers : call[c].pc # "rewrite"
            BY <2>1, <2>2, IdleFacts
        <3> QED BY <3>1, <3>2 DEF InHand
    <2>6. \A r \in InHand : r.logical \in torn'
        BY <2>5
    <2>7. cache' = cache /\ phase' \in {"down", "opening", "up"} /\ redo' = NoRedo
        BY <2>1, <2>3
    <2> QED BY ZenonT(30), <2>1, <2>2, <2>4, <2>6, <2>7, RestingStep
<1> QED BY ZenonT(30), <1>2, <1>3


LEMMA InitChain ==
    ASSUME Init
    PROVE  ChainInv
<1> DEFINE First(i) == [logical |-> Founded[i], id |-> i, version |-> 1, op |-> "Create", from |-> 0,
                        until |-> None, merged_into |-> None]
<1>1. /\ rows = {First(i) : i \in 1 .. Len(Founded)} /\ given = Len(Founded) /\ nodes = 1 .. Len(Founded)
      /\ envelopes = <<>> /\ cache = NoHeads /\ call = [c \in Callers |-> Idle] /\ phase = "up"
      /\ redo = NoRedo /\ born = Range(Founded) /\ purging = {} /\ torn = {}
    BY DEF Init
<1>2. Founded \in Seq(Memories) /\ 0 \in Times
    BY FoundedAssumption, TimesAssumption
<1>3. given \in Nat /\ \A i \in 1 .. Len(Founded) : Founded[i] \in Memories
    BY <1>1, <1>2, SMTT(20)
<1>4. \A i \in 1 .. Len(Founded) : i \in 1 .. given /\ 1 \in 1 .. given
    <2>1. \A n \in Nat : \A i \in 1 .. n : 1 \in 1 .. n
        BY SMT
    <2> QED BY <1>1, <1>3, <2>1
<1>5. \A i \in 1 .. Len(Founded) : First(i) \in Revision
    BY <1>2, <1>3, <1>4 DEF Revision
<1>6. rows \subseteq Revision
    BY <1>1, <1>5
<1>7. \A z : z \in Range(Founded) <=> \E i \in 1 .. Len(Founded) : z = Founded[i]
    BY <1>2, RangeFacts
<1>8. \A c \in Callers : call[c] = Idle
    BY <1>1
<1>9. call \in [Callers -> Call]
    BY <1>1, IdleFacts
<1>10. cache \in [Memories -> Revision \cup {None}] /\ \A m \in Memories : cache[m] = None
    BY <1>1 DEF NoHeads
<1>11. redo.held = {} /\ redo.todo = {}
      /\ redo \in [env : Nat, todo : SUBSET Revision, held : SUBSET Revision, outcome : {"applied", "failed"}]
    BY <1>1, NoRedoFacts
<1>12. envelopes \in Seq(MutationEnvelope) /\ 1 .. Len(envelopes) = {}
    <2>1. \A S : <<>> \in Seq(S) /\ 1 .. Len(<<>>) = {}
        BY SMT
    <2> QED BY <1>1, <2>1
<1>13. born \subseteq Memories
    BY <1>1, <1>3, <1>7
<1>14. Typed
    BY ZenonT(30), <1>1, <1>3, <1>6, <1>9, <1>10, <1>11, <1>12, <1>13 DEF Typed
<1>15. Copies = rows
    <2>1. CachedHeads = {}
        BY <1>10 DEF CachedHeads
    <2>2. Carried = {}
        BY <1>8, IdleFacts DEF Carried
    <2> QED BY <1>11, <2>1, <2>2 DEF Copies
<1>16. \A r \in rows : \E i \in 1 .. Len(Founded) : r = First(i) /\ r.id = i /\ r.logical = Founded[i] /\ r.until = None
    <2>1. \A i \in 1 .. Len(Founded) : First(i).id = i /\ First(i).logical = Founded[i] /\ First(i).until = None
        OBVIOUS
    <2>2. \A r \in rows : \E i \in 1 .. Len(Founded) : r = First(i)
        BY <1>1
    <2> HIDE DEF First
    <2> QED BY ZenonT(30), <2>1, <2>2
<1>17. CopiesAgree
    <2> HIDE DEF First
    <2>1. \A r, s \in rows : r.id = s.id => r = s
        <3> SUFFICES ASSUME NEW r \in rows, NEW s \in rows, r.id = s.id PROVE r = s
            OBVIOUS
        <3>1. r = First(r.id) /\ s = First(s.id)
            BY <1>16
        <3> QED BY <3>1
    <2>2. \A r \in rows : r.logical \in born /\ r.until = None
        BY <1>1, <1>7, <1>16
    <2> QED BY <1>15, <2>1, <2>2 DEF CopiesAgree, SameFact
<1>18. RowsOK
    <2> HIDE DEF First
    <2> QED BY <1>16 DEF RowsOK
<1>19. RedoOK
    BY <1>11 DEF RedoOK
<1>20. \A c \in Callers : CallOK(c)
    BY <1>8, IdleFacts DEF CallOK, Stored
<1> QED BY ZenonT(30), <1>12, <1>14, <1>17, <1>18, <1>19, <1>20 DEF ChainInv

LEMMA StutterChain ==
    ASSUME ChainInv, UNCHANGED vars
    PROVE  ChainInv'
<1>1. UNCHANGED <<rows, nodes, envelopes, cache, call, phase, redo, born, purging, torn, given>>
    BY DEF vars, store, ghosts, bounds
<1>2. Revision' = Revision
    BY <1>1 DEF Revision
<1>3. Call' = Call /\ MutationEnvelope' = MutationEnvelope
    BY ZenonT(30), <1>1, <1>2 DEF Call, MutationEnvelope
<1>4. Typed'
    BY ZenonT(30), <1>1, <1>2, <1>3 DEF ChainInv, Typed
<1>5. Copies' = Copies
    <2>1. CachedHeads' = CachedHeads /\ Carried' = Carried
        BY <1>1 DEF CachedHeads, Carried
    <2> QED BY <1>1, <2>1 DEF Copies
<1>6. CopiesAgree'
    BY ZenonT(30), <1>1, <1>5 DEF ChainInv, CopiesAgree, SameFact
<1>7. InHand' = InHand
    BY <1>1 DEF InHand, Prior
<1>8. \A r, t : Shadowed(r, t) => Shadowed(r, t)'
    BY <1>1, <1>7 DEF Shadowed
<1>9. \A r : Superseded(r) => Superseded(r)'
    BY <1>1 DEF Superseded
<1>10. RowsOK' /\ RedoOK'
    BY ZenonT(30), <1>1, <1>8, <1>9 DEF ChainInv, RowsOK, RedoOK
<1>11. \A c \in Callers : CallOK(c)'
    BY ZenonT(30), <1>1, <1>8, <1>9 DEF ChainInv, CallOK
<1>12. \A e \in 1 .. Len(envelopes') : EnvelopeOK(e)'
    <2>1. \A r \in Copies' : Derived(r)
        BY <1>1, <1>5, OldCopies
    <2>2. /\ rows' \subseteq Copies' /\ redo'.todo \cup redo'.held \subseteq Copies'
          /\ \A m \in Memories : cache'[m] # None => cache'[m] \in Copies'
          /\ \A c \in Callers : Range(call'[c].prior) \cup Range(call'[c].next) \subseteq Copies'
        BY DEF Copies, CachedHeads, Carried
    <2>3. AllDerived
        BY <2>1, <2>2 DEF AllDerived
    <2> QED BY <1>1, <2>3, EnvelopesStay
<1> QED BY ZenonT(30), <1>4, <1>6, <1>10, <1>11, <1>12 DEF ChainInv

LEMMA CallStep ==
    ASSUME ChainInv, NEW c \in Callers,
           Ask(c) \/ Edit(c) \/ History(c) \/ Sweep(c) \/ Unlink(c) \/ Scan(c) \/ Replace(c)
    PROVE  ChainInv'
<1>1. CASE Ask(c)
    BY <1>1, AskStep
<1>2. CASE Edit(c)
    BY ZenonT(30), <1>2, UniqueStep, ResolveStep, LoadedStep, IntendStep, AddNodeStep, AppendRowsStep, UndoStep,
       FailFinishStep, CloseStep, RewriteStep, AuditStep, CacheStep, DetachStep DEF Edit
<1>3. CASE History(c) \/ Sweep(c) \/ Unlink(c)
    BY <1>3, HistoryStep, SweepStep, UnlinkStep
<1>4. CASE Scan(c) \/ Replace(c)
    BY <1>4, ScanStep, ReplaceStep
<1> QED BY <1>1, <1>2, <1>3, <1>4

LEMMA ChainStep ==
    ASSUME ChainInv, [Next]_vars
    PROVE  ChainInv'
<1>1. CASE \E c \in Callers : Ask(c) \/ Edit(c) \/ History(c) \/ Sweep(c) \/ Unlink(c) \/ Scan(c) \/ Replace(c)
    BY <1>1, CallStep
<1>2. CASE Recovery
    BY ZenonT(30), <1>2, ReconcileStep, RedoDeleteStep, RedoRewriteStep, RedoMarkStep, CrashOpenStep DEF Recovery
<1>3. CASE Crash \/ Open
    BY <1>3, CrashOpenStep
<1>4. CASE UNCHANGED vars
    BY <1>4, StutterChain
<1> QED BY <1>1, <1>2, <1>3, <1>4 DEF Next


(* Why the head stays.                                                      *)
LEMMA KeepsHead ==
    ASSUME ChainInv, rows \subseteq rows' \/ \E m \in purging : rows' = rows \ Of(m)
    PROVE  HeadStays
<1>1. \A r \in rows : r.version \in Nat
    <2>1. given \in Nat /\ \A r \in rows : r.version \in 1 .. given
        BY DEF ChainInv, Typed, Revision
    <2> QED BY SMTT(20), <2>1
<1>2. \A n \in Nat : n >= n
    BY SMT
<1>3. \A r \in rows : r.logical \in purging \/ r \in rows'
    BY DEF Of
<1> QED BY <1>1, <1>2, <1>3 DEF HeadStays

LEMMA CallKeepsHead ==
    ASSUME ChainInv, NEW c \in Callers,
           Ask(c) \/ Edit(c) \/ History(c) \/ Sweep(c) \/ Unlink(c) \/ Scan(c) \/ Replace(c)
    PROVE  HeadStays
<1>1. CASE Close(c)
    <2>1. /\ Prior(c) \in Copies /\ Superseded(Prior(c))
          /\ rows' = rows \/ rows' = {r \in rows : r.id # Prior(c).id}
        BY <1>1, PriorFacts DEF Close, Up
    <2> QED BY <2>1, KeepsHead, DeleteKeepsHead
<1>2. CASE Sweep(c)
    <2>1. call[c].on[1] \in purging /\ (rows' = rows \/ rows' = rows \ Of(call[c].on[1]))
        BY <1>2 DEF Sweep, Up, ChainInv, CallOK
    <2> QED BY ZenonT(30), <2>1, KeepsHead
<1>3. CASE AppendRows(c) \/ Rewrite(c)
    <2>1. rows \subseteq rows'
        BY <1>3 DEF AppendRows, Rewrite
    <2> QED BY <2>1, KeepsHead
<1>4. CASE Ask(c) \/ History(c) \/ Unlink(c) \/ Scan(c) \/ Replace(c)
    <2>1. rows' = rows
        BY ZenonT(30), <1>4 DEF Ask, Begin, History, Unlink, Scan, Replace, store
    <2> QED BY <2>1, KeepsHead
<1>5. CASE Unique(c) \/ Resolve(c) \/ Loaded(c) \/ Intend(c) \/ AddNode(c) \/ Undo(c)
    <2>1. rows' = rows
        BY <1>5 DEF Unique, Resolve, Loaded, Intend, AddNode, Undo, store
    <2> QED BY <2>1, KeepsHead
<1>6. CASE Fail(c) \/ Audit(c) \/ Cache(c) \/ Detach(c) \/ Finish(c)
    <2>1. rows' = rows
        BY <1>6 DEF Fail, Audit, Cache, Detach, Finish, store
    <2> QED BY <2>1, KeepsHead
<1> QED BY ZenonT(30), <1>1, <1>2, <1>3, <1>4, <1>5, <1>6 DEF Edit

LEMMA RecoveryKeepsHead ==
    ASSUME ChainInv, Recovery
    PROVE  HeadStays
<1>1. ASSUME NEW e \in Pending, Reconcile(e) PROVE HeadStays
    <2>1. rows' = rows \/ (envelopes[e].kind = "purge" /\ rows' = rows \ Of(envelopes[e].on[1]))
        BY <1>1 DEF Reconcile, GiveUp, RedoWrite, RedoRetract, RedoPurge, Abandon
    <2>2. envelopes[e].kind = "purge" => envelopes[e].on[1] \in purging
        BY ZenonT(30), <1>1, PendingFacts DEF ChainInv, EnvelopeOK
    <2> QED BY <2>1, <2>2, KeepsHead
<1>2. CASE RedoDelete
    <2>1. PICK r \in redo.todo : rows' = {s \in rows : s.id # r.id}
        BY <1>2 DEF RedoDelete
    <2>2. r \in Copies /\ Superseded(r)
        BY CopiesFacts DEF ChainInv, RedoOK
    <2> QED BY <2>1, <2>2, DeleteKeepsHead
<1>3. CASE RedoRewrite \/ RedoMark \/ RedoFault \/ Opened
    <2>1. rows \subseteq rows'
        BY <1>3 DEF RedoRewrite, RedoMark, RedoFault, Opened, store
    <2> QED BY <2>1, KeepsHead
<1> QED BY <1>1, <1>2, <1>3 DEF Recovery

LEMMA HeadStep ==
    ASSUME ChainInv, Next
    PROVE  HeadStays
<1>1. CASE Crash \/ Open
    <2>1. rows' = rows
        BY <1>1 DEF Crash, Open, store
    <2> QED BY <2>1, KeepsHead
<1> QED BY ZenonT(30), <1>1, CallKeepsHead, RecoveryKeepsHead DEF Next

(* Why time travel is exact.                                                *)
LEMMA ClosedIsShadowed ==
    ASSUME ChainInv, NEW h \in rows \cup InHand, h.until # None
    PROVE  Shadowed(h, h.until)
<1>1. CASE h \in rows \cup redo.held
    BY <1>1 DEF ChainInv, RowsOK, RedoOK
<1>2. CASE h \notin rows \cup redo.held
    <2>1. PICK d \in Callers : /\ call[d].pc = "rewrite"
                              /\ h = Closed(call[d].prior[call[d].k], call[d].next[1].from)
        BY <1>2, HandCases
    <2>2. PICK p : p = Prior(d)
        OBVIOUS
    <2>3. PICK t : t = call[d].next[1].from
        OBVIOUS
    <2>4. p \in Revision /\ t \in Times /\ Shadowed(p, t) /\ h = Closed(p, t)
        BY ZenonT(30), <2>1, <2>2, <2>3, PriorFacts DEF Prior
    <2>5. SameFact(h, p) /\ h.until \in Times /\ t <= h.until
        BY ZenonT(30), <2>4, ClosedFacts
    <2>6. rows \cup InHand \subseteq Revision
        BY HandFacts DEF ChainInv, Typed
    <2>7. p.logical = h.logical /\ p.version = h.version
        BY <2>5 DEF SameFact
    <2> QED BY ZenonT(30), <2>4, <2>5, <2>6, <2>7, ShadowedLater
<1> QED BY <1>1, <1>2

LEMMA TimeTravel ==
    ASSUME ChainInv
    PROVE  AsOfIsExact
<1> SUFFICES ASSUME NEW m \in Memories \ (purging \cup torn), NEW t \in Times, NEW all, NEW begun,
                    all = {r \in rows \cup InHand : r.logical = m},
                    begun = {r \in all : r.from <= t}, begun # {}
             PROVE  AsOf(all, t) = HeadOf(begun).id
    BY ZenonT(30) DEF AsOfIsExact
<1>1. given \in Nat /\ rows \cup InHand \subseteq Revision
    BY HandFacts DEF ChainInv, Typed
<1>2. PICK h : h = HeadOf(begun)
    OBVIOUS
<1>3. h \in begun /\ h \in all /\ h \in Revision /\ \A s \in begun : ~semantic_revision_is_newer(s, h)
    BY <1>1, <1>2, HeadFacts
<1>4. \A r \in Revision : r.from \in Nat /\ r.version \in Nat /\ r.id \in Nat /\ (r.until = None \/ r.until \in Nat)
    <2>1. \A i \in 1 .. given : i \in Nat
        BY <1>1, SMTT(20)
    <2> QED BY ZenonT(30), <2>1, TimesAssumption DEF Revision
<1>5. is_valid_at(h, t)
    <2>1. SUFFICES ASSUME h.until # None, ~(t < h.until) PROVE FALSE
        BY <1>3 DEF is_valid_at
    <2>2. PICK s \in rows \cup InHand : s.logical = h.logical /\ s.version > h.version /\ s.from <= h.until
        <3>1. Shadowed(h, h.until)
            BY <1>3, <2>1, ClosedIsShadowed
        <3> QED BY <1>3, <3>1 DEF Shadowed
    <2>3. s.from <= t
        <3>1. s.from \in Nat /\ h.until \in Nat /\ t \in Nat
            BY ZenonT(30), <1>1, <1>3, <1>4, <2>1, TimesAssumption
        <3> QED BY ONLY <2>1, <2>2, <3>1, SMTT(20)
    <2>4. s \in begun
        BY <1>3, <2>2, <2>3
    <2> QED BY <1>3, <2>2, <2>4 DEF semantic_revision_is_newer
<1>6. PICK valid : valid = {r \in all : is_valid_at(r, t)}
    OBVIOUS
<1>7. h \in valid /\ valid \subseteq begun /\ valid \subseteq Revision /\ valid # {}
    BY ZenonT(30), <1>1, <1>3, <1>5, <1>6 DEF is_valid_at
<1>8. PICK g : g = HeadOf(valid)
    OBVIOUS
<1>9. g \in valid /\ ~semantic_revision_is_newer(h, g) /\ ~semantic_revision_is_newer(g, h)
    BY ZenonT(30), <1>1, <1>3, <1>7, <1>8, HeadFacts
<1>10. g.id = h.id
    <2>1. g.version \in Nat /\ h.version \in Nat /\ g.id \in Nat /\ h.id \in Nat
        BY ZenonT(30), <1>3, <1>4, <1>7, <1>9
    <2> QED BY ONLY <1>9, <2>1, SMTT(20) DEF semantic_revision_is_newer
<1>11. AsOf(all, t) = g.id
    BY ZenonT(30), <1>6, <1>7, <1>8 DEF AsOf
<1> QED BY <1>2, <1>10, <1>11

(* The invariant the other theorems rest on: the copies of a revision agree *)
(* on its facts, a revision that a write is about to delete has a newer one *)
(* stored, and an interval ends no earlier than a newer revision begins.    *)
THEOREM ChainInvariance == Spec => []ChainInv
<1>1. Init => ChainInv
    BY InitChain
<1>2. ChainInv /\ [Next]_vars => ChainInv'
    BY ChainStep
<1> QED BY <1>1, <1>2, PTL DEF Spec

(* The types of the variables, and no interval of a row ends before it      *)
(* begins, whatever observed time an edit, a recovery or a create is given. *)
THEOREM RevisionTypes == Spec => []TypeOK
<1>1. ChainInv => TypeOK
    <2> SUFFICES ASSUME ChainInv PROVE TypeOK
        OBVIOUS
    <2>1. Typed /\ \A r \in rows : r.until = None \/ r.from <= r.until
        BY CopiesFacts DEF ChainInv, CopiesAgree
    <2>2. \A m \in Memories : cache[m] = None \/ (cache[m] \in Revision /\ cache[m].logical = m)
        BY <2>1 DEF Typed
    <2> QED BY <2>1, <2>2 DEF Typed, TypeOK
<1> QED BY <1>1, ChainInvariance, PTL

(* The head of a chain that nobody asked to purge never goes back to an     *)
(* older version: close_predecessor_valid_until deletes a predecessor only  *)
(* after its successor is durable, and so does the recovery.                *)
THEOREM HeadsNeverRegress == Spec => HeadNeverRegresses
<1>1. ChainInv /\ [Next]_vars => [HeadStays]_vars
    BY HeadStep
<1>2. HeadNeverRegresses <=> [][HeadStays]_vars
    BY ZenonT(30) DEF HeadNeverRegresses, HeadStays
<1> QED BY <1>1, <1>2, ChainInvariance, PTL DEF Spec

(* AS OF OBSERVED t sees the newest revision that had begun by t, for every *)
(* t, on every chain that is not purged and had no rewrite cut in two.      *)
THEOREM AsOfExactness == Spec => []AsOfIsExact
<1>1. ChainInv => AsOfIsExact
    BY TimeTravel
<1> QED BY <1>1, ChainInvariance, PTL

-----------------------------------------------------------------------------
(* Why a current fact has its node. *)

(* Envelopes are appended and change their states at most, and a purge that *)
(* was asked for is not forgotten.                                          *)
Kept ==
    /\ purging \subseteq purging'
    /\ \A e \in 1 .. Len(envelopes) :
          /\ e \in 1 .. Len(envelopes')
          /\ envelopes'[e].kind = envelopes[e].kind /\ envelopes'[e].on = envelopes[e].on
          /\ envelopes'[e].prior = envelopes[e].prior /\ envelopes'[e].next = envelopes[e].next

(* A row goes with a purge, or as a live predecessor.                       *)
RowsKept ==
    \A s \in rows : \/ s \in rows' \/ s.logical \in purging
                    \/ is_live(s) /\ \E u \in rows' : u.logical = s.logical /\ u.version > s.version

(* No current fact needs the node n.                                        *)
Expendable(n) ==
    \A r \in rows : r.id = n =>
        r.logical \in purging \/ ~is_live(r) \/ ~Newest(r) \/ MergedWithPurged(n)

LEMMA StatesKept ==
    ASSUME Typed, purging \subseteq purging',
           \/ envelopes' = envelopes
           \/ \E e \in Nat, s \in {"applied", "failed"} : Set(e, s)
    PROVE  Kept /\ Len(envelopes') = Len(envelopes)
<1>1. envelopes \in Seq(MutationEnvelope)
    BY DEF Typed
<1>2. /\ Len(envelopes') = Len(envelopes)
      /\ \A e \in 1 .. Len(envelopes) :
            /\ envelopes'[e].kind = envelopes[e].kind /\ envelopes'[e].on = envelopes[e].on
            /\ envelopes'[e].prior = envelopes[e].prior /\ envelopes'[e].next = envelopes[e].next
    BY <1>1, OnlyStates
<1> QED BY <1>2 DEF Kept

LEMMA AppendKept ==
    ASSUME Typed, purging \subseteq purging', NEW w, envelopes' = Append(envelopes, w)
    PROVE  /\ Kept /\ envelopes'[Len(envelopes) + 1] = w
           /\ Len(envelopes) + 1 \in 1 .. Len(envelopes')
           /\ \A e \in 1 .. Len(envelopes') : e \in 1 .. Len(envelopes) \/ e = Len(envelopes) + 1
<1>1. PICK S : envelopes \in Seq(S)
    BY DEF Typed
<1>2. PICK q : q = envelopes
    OBVIOUS
<1>3. /\ Len(Append(q, w)) = Len(q) + 1 /\ Append(q, w)[Len(q) + 1] = w /\ Len(q) \in Nat
      /\ \A i \in 1 .. Len(q) : Append(q, w)[i] = q[i]
      /\ \A i \in 1 .. Len(q) + 1 : i \in 1 .. Len(q) \/ i = Len(q) + 1
    <2>1. PICK T : S \subseteq T /\ w \in T
        <3>1. S \subseteq S \cup {w} /\ w \in S \cup {w}
            OBVIOUS
        <3> QED BY <3>1
    <2>2. q \in Seq(S)
        BY <1>1, <1>2
    <2>3. Len(q) \in Nat
        BY ONLY <2>2, SMTT(20)
    <2>4. /\ Append(q, w) \in Seq(T) /\ Len(Append(q, w)) = Len(q) + 1
          /\ Append(q, w)[Len(q) + 1] = w
          /\ \A i \in 1 .. Len(q) : Append(q, w)[i] = q[i]
          /\ \A i \in 1 .. Len(q) + 1 : i \in 1 .. Len(q) \/ i = Len(q) + 1
        BY ONLY <2>1, <2>2, AppendFacts, ZenonT(30)
    <2> QED BY <2>3, <2>4
<1>4. Len(q) + 1 \in 1 .. Len(q) + 1 /\ \A i \in 1 .. Len(q) : i \in 1 .. Len(q) + 1
    BY ONLY <1>3, SMTT(20)
<1>5. \A i \in 1 .. Len(envelopes) : envelopes'[i] = envelopes[i] /\ i \in 1 .. Len(envelopes')
    BY <1>2, <1>3, <1>4
<1>6. Kept
    BY <1>5 DEF Kept
<1> QED BY ZenonT(30), <1>2, <1>3, <1>4, <1>6

LEMMA MergedStays ==
    ASSUME Kept, NEW n, MergedWithPurged(n)
    PROVE  MergedWithPurged(n)'
<1>1. PICK e \in 1 .. Len(envelopes) : /\ envelopes[e].kind = "merge" /\ n \in Range(envelopes[e].next)
                                      /\ Range(envelopes[e].on) \cap purging # {}
    BY DEF MergedWithPurged
<1>2. /\ e \in 1 .. Len(envelopes') /\ envelopes'[e].kind = envelopes[e].kind
      /\ envelopes'[e].on = envelopes[e].on /\ envelopes'[e].next = envelopes[e].next /\ purging \subseteq purging'
    BY DEF Kept
<1>3. Range(envelopes'[e].on) \cap purging' # {}
    BY <1>1, <1>2
<1> QED BY <1>1, <1>2, <1>3 DEF MergedWithPurged

(* What is superseded stays so, and what is not the newest does.            *)
LEMMA OldStays ==
    ASSUME Typed, Typed', Kept, RowsKept, NEW r, r.version \in Nat, r.id \in Nat
    PROVE  /\ Superseded(r) => Superseded(r)'
           /\ ~Newest(r) => ~Newest(r)' \/ r.logical \in purging
           /\ Superseded(r) => ~Newest(r) \/ r.logical \in purging
<1>1. /\ \A s \in rows : s.version \in Nat /\ s.id \in Nat
      /\ \A s \in rows' : s.version \in Nat /\ s.id \in Nat
    <2>1. given \in Nat /\ rows \subseteq Revision /\ given' \in Nat /\ rows' \subseteq Revision'
        BY DEF Typed
    <2>2. (\A x \in 1 .. given : x \in Nat) /\ (\A x \in 1 .. given' : x \in Nat)
        BY SMTT(20)
    <2> QED BY <2>1, <2>2 DEF Revision
<1>2. \A s, u : s.version \in Nat /\ u.version \in Nat /\ s.version > r.version /\ u.version > s.version
                => u.version > r.version
    BY SMTT(20)
<1>3. \A s, u : /\ s.version \in Nat /\ s.id \in Nat /\ u.version \in Nat /\ u.id \in Nat
                /\ semantic_revision_is_newer(s, r) /\ u.version > s.version
                => semantic_revision_is_newer(u, r)
    BY SMTT(20) DEF semantic_revision_is_newer
<1>4. ASSUME Superseded(r) PROVE Superseded(r)'
    <2>1. CASE r.logical \in purging
        BY <2>1 DEF Superseded, Kept
    <2>2. CASE \E s \in rows : s.logical = r.logical /\ s.version > r.version
        <3>1. PICK s \in rows : s.logical = r.logical /\ s.version > r.version
            BY <2>2
        <3>2. CASE s \in rows' \/ s.logical \in purging
            BY <3>1, <3>2 DEF Superseded, Kept
        <3>3. CASE \E u \in rows' : u.logical = s.logical /\ u.version > s.version
            BY ZenonT(30), <1>1, <1>2, <3>1, <3>3 DEF Superseded
        <3> QED BY <3>2, <3>3 DEF RowsKept
    <2> QED BY ZenonT(30), <1>4, <2>1, <2>2 DEF Superseded
<1>5. ASSUME ~Newest(r) PROVE ~Newest(r)' \/ r.logical \in purging
    <2>1. PICK s \in rows : s.logical = r.logical /\ semantic_revision_is_newer(s, r)
        BY <1>5 DEF Newest
    <2>2. CASE s \in rows'
        <3>1. semantic_revision_is_newer(s, r)'
            BY <2>1 DEF semantic_revision_is_newer
        <3> QED BY <2>1, <2>2, <3>1 DEF Newest
    <2>3. CASE \E u \in rows' : u.logical = s.logical /\ u.version > s.version
        <3>1. PICK u \in rows' : u.logical = s.logical /\ u.version > s.version
            BY <2>3
        <3>2. semantic_revision_is_newer(u, r)
            BY ZenonT(30), <1>1, <1>3, <2>1, <3>1
        <3>3. semantic_revision_is_newer(u, r)'
            BY <3>2 DEF semantic_revision_is_newer
        <3> QED BY <2>1, <3>1, <3>3 DEF Newest
    <2> QED BY <2>1, <2>2, <2>3 DEF RowsKept
<1>6. Superseded(r) => ~Newest(r) \/ r.logical \in purging
    BY DEF Superseded, Newest, semantic_revision_is_newer
<1> QED BY <1>4, <1>5, <1>6

(* The rows stay linked when new ones are, and no node goes that is needed. *)
LEMMA RowsStayLinked ==
    ASSUME ChainInv, ChainInv', NodeInv, Kept, RowsKept,
           \A r \in rows' : r \in rows \/ (Linked(r)' /\ (r.until = None \/ Superseded(r)')),
           \A n \in nodes \ nodes' : Expendable(n)
    PROVE  \A r \in rows' : Linked(r)' /\ (r.until # None => Superseded(r)')
<1>1. SUFFICES ASSUME NEW r \in rows' PROVE Linked(r)' /\ (r.until # None => Superseded(r)')
    OBVIOUS
<1>2. CASE r \notin rows
    BY <1>2
<1>3. CASE r \in rows
    <2>1. r.version \in Nat /\ r.id \in Nat
        <3>1. given \in Nat /\ r \in Revision
            BY ZenonT(30), <1>3 DEF ChainInv, Typed
        <3>2. \A x \in 1 .. given : x \in Nat
            BY SMTT(20), <3>1
        <3> QED BY ZenonT(30), <3>1, <3>2 DEF Revision
    <2>2. /\ Superseded(r) => Superseded(r)'
          /\ ~Newest(r) => ~Newest(r)' \/ r.logical \in purging
        BY <2>1, OldStays DEF ChainInv
    <2>3. r.until # None => Superseded(r)'
        BY <1>3, <2>2 DEF NodeInv
    <2>4. Linked(r)
        BY <1>3 DEF NodeInv
    <2>5. r.logical \in purging => r.logical \in purging'
        BY DEF Kept
    <2>6. MergedWithPurged(r.id) => MergedWithPurged(r.id)'
        BY MergedStays
    <2>7. r.id \in nodes => \/ r.id \in nodes' \/ r.logical \in purging \/ ~is_live(r)
                            \/ ~Newest(r) \/ MergedWithPurged(r.id)
        BY <1>3 DEF Expendable
    <2>8. \/ r.logical \in purging' \/ ~is_live(r) \/ ~Newest(r)' \/ r.id \in nodes'
          \/ MergedWithPurged(r.id)'
        BY ZenonT(30), <2>2, <2>4, <2>5, <2>6, <2>7 DEF Linked
    <2>9. Linked(r)'
        BY <2>8 DEF Linked, is_live
    <2> QED BY <2>3, <2>9
<1> QED BY <1>2, <1>3

(* What is known.                                                           *)
LEMMA KnownFacts ==
    /\ \A r \in rows : Known(r.id)
    /\ \A m \in Memories : cache[m] # None => Known(cache[m].id)
    /\ \A r \in redo.todo \cup redo.held : Known(r.id)
    /\ \A c \in Callers : \A n \in Read(c) : Known(n)
    /\ \A e \in 1 .. Len(envelopes) : \A n \in envelopes[e].prior : Known(n)
<1>1. \A r \in rows \cup CachedHeads \cup redo.todo \cup redo.held : Known(r.id)
    BY DEF Known
<1>2. \A m \in Memories : cache[m] # None => cache[m] \in CachedHeads
    BY DEF CachedHeads
<1>3. \A c \in Callers : \A n \in Read(c) : Known(n)
    BY DEF Known
<1>4. \A e \in 1 .. Len(envelopes) : \A n \in envelopes[e].prior : Known(n)
    BY DEF Known
<1> QED BY ZenonT(30), <1>1, <1>2, <1>3, <1>4

LEMMA NextKnown ==
    ASSUME NEW B,
           \A r \in rows' : Known(r.id) \/ r.id \in B,
           \A m \in Memories : cache'[m] # None => Known(cache'[m].id),
           \A r \in redo'.todo \cup redo'.held : Known(r.id),
           \A c \in Callers : \A n \in Read(c)' : Known(n) \/ n \in B,
           \A e \in 1 .. Len(envelopes') : \A n \in envelopes'[e].prior : Known(n)
    PROVE  \A n : Known(n)' => Known(n) \/ n \in B
<1>1. ASSUME NEW r \in rows' \cup CachedHeads' \cup redo'.todo \cup redo'.held PROVE Known(r.id) \/ r.id \in B
    <2>1. CASE r \in CachedHeads'
        BY <2>1 DEF CachedHeads
    <2> QED BY <1>1, <2>1
<1>2. SUFFICES ASSUME NEW n, Known(n)' PROVE Known(n) \/ n \in B
    OBVIOUS
<1>3. \/ \E r \in rows' \cup CachedHeads' \cup redo'.todo \cup redo'.held : r.id = n
      \/ \E c \in Callers : n \in Read(c)'
      \/ \E e \in 1 .. Len(envelopes') : n \in envelopes'[e].prior
    BY <1>2 DEF Known
<1> QED BY ZenonT(30), <1>1, <1>3

(* Nothing is known or built beyond the ids given out.                      *)
LEMMA KnownIsGiven ==
    ASSUME Typed
    PROVE  /\ \A n : Known(n) => n \in 1 .. given
           /\ \A c \in Callers : Built(c) \subseteq 1 .. given
           /\ \A e \in 1 .. Len(envelopes) : /\ Range(envelopes[e].next) \subseteq 1 .. given
                                              /\ envelopes[e].prior \subseteq 1 .. given
<1>1. \A r \in Revision : r.id \in 1 .. given
    BY DEF Revision
<1>2. /\ rows \subseteq Revision /\ redo.todo \subseteq Revision /\ redo.held \subseteq Revision
      /\ \A m \in Memories : cache[m] # None => cache[m] \in Revision
    BY DEF Typed
<1>3. \A c \in Callers : Range(call[c].prior) \subseteq Revision /\ Range(call[c].next) \subseteq Revision
    <2>1. \A c \in Callers : call[c].prior \in Seq(Revision) /\ call[c].next \in Seq(Revision)
        BY DEF Typed, Call
    <2> QED BY <2>1, RangeFacts
<1>4. \A c \in Callers : Ids(Range(call[c].prior)) \subseteq 1 .. given /\ Ids(Range(call[c].next)) \subseteq 1 .. given
    BY <1>1, <1>3 DEF Ids
<1>5. \A c \in Callers : Built(c) \subseteq 1 .. given /\ Read(c) \subseteq 1 .. given
    BY <1>4 DEF Built, Read
<1>6. \A e \in 1 .. Len(envelopes) : /\ Range(envelopes[e].next) \subseteq 1 .. given
                                     /\ envelopes[e].prior \subseteq 1 .. given
    <2>1. \A S : \A q \in Seq(S) : \A i \in 1 .. Len(q) : q[i] \in S
        BY SMTT(20)
    <2>2. \A e \in 1 .. Len(envelopes) : envelopes[e] \in MutationEnvelope
        BY <2>1 DEF Typed
    <2>3. \A e \in 1 .. Len(envelopes) : envelopes[e].next \in Seq(1 .. given) /\ envelopes[e].prior \subseteq 1 .. given
        BY <2>2 DEF MutationEnvelope
    <2> QED BY <2>3, RangeFacts
<1>7. CachedHeads \subseteq Revision
    BY <1>2 DEF CachedHeads
<1>8. \A n : Known(n) => n \in 1 .. given
    BY ZenonT(30), <1>1, <1>2, <1>5, <1>6, <1>7 DEF Known
<1> QED BY ZenonT(30), <1>5, <1>6, <1>8

(* What a step of c may do to the revisions built: leave its own, store     *)
(* them all, or forget them, perhaps for new ones.                          *)
Builds(c) ==
    /\ \A d \in Callers \ {c} : call'[d] = call[d]
    /\ \/ Built(c)' = Built(c) /\ \A n : Known(n)' => Known(n)
       \/ /\ Built(c)' = {} /\ Built(c) \subseteq Ids(rows')
          /\ \A n : Known(n)' => Known(n) \/ n \in Built(c)
       \/ Built(c)' \cap (1 .. given) = {} /\ \A n : Known(n)' => Known(n)

LEMMA OthersBuilt ==
    ASSUME NEW c \in Callers, \A d \in Callers \ {c} : call'[d] = call[d]
    PROVE  \A d \in Callers \ {c} : Built(d)' = Built(d)
BY DEF Built, Ids

LEMMA FreshStays ==
    ASSUME Typed, Fresh, NEW c \in Callers, Builds(c)
    PROVE  Fresh'
<1>1. \A d \in Callers \ {c} : Built(d)' = Built(d)
    BY OthersBuilt DEF Builds
<1>2. \A d \in Callers : \A n \in Built(d) : n \in 1 .. given /\ ~Known(n)
    BY KnownIsGiven DEF Fresh
<1>3. \A d, f \in Callers : d # f => Built(d) \cap Built(f) = {}
    BY DEF Fresh
<1>4. \A d \in Callers \ {c} : Built(c)' \cap Built(d) = {}
    BY <1>2, <1>3 DEF Builds
<1>5. \A n : Known(n) => n \in 1 .. given
    BY KnownIsGiven
<1>6. \A n \in Built(c)' : ~Known(n)'
    BY <1>2, <1>5 DEF Builds
<1>7. \A d \in Callers \ {c} : \A n \in Built(d) : ~Known(n)'
    <2>1. SUFFICES ASSUME NEW d \in Callers \ {c}, NEW n \in Built(d), Known(n)' PROVE FALSE
        OBVIOUS
    <2>2. Known(n) \/ n \in Built(c)
        BY <2>1 DEF Builds
    <2> QED BY ZenonT(30), <1>2, <1>3, <2>1, <2>2
<1>8. \A d \in Callers : \A n \in Built(d)' : ~Known(n)'
    BY ZenonT(30), <1>1, <1>6, <1>7
<1>9. \A d, f \in Callers : d # f => Built(d)' \cap Built(f)' = {}
    <2>1. SUFFICES ASSUME NEW d \in Callers, NEW f \in Callers, d # f PROVE Built(d)' \cap Built(f)' = {}
        OBVIOUS
    <2>2. CASE d = c
        BY ZenonT(30), <1>1, <1>4, <2>1, <2>2
    <2>3. CASE f = c
        <3>1. d \in Callers \ {c}
            BY <2>1, <2>3
        <3>2. Built(c)' \cap Built(d) = {} /\ Built(d)' = Built(d)
            BY ZenonT(30), <1>1, <1>4, <3>1
        <3> QED BY <2>3, <3>2
    <2>4. CASE d # c /\ f # c
        BY ZenonT(30), <1>1, <1>3, <2>1, <2>4
    <2> QED BY ZenonT(30), <2>2, <2>3, <2>4
<1> QED BY <1>8, <1>9 DEF Fresh

(* The revisions of a merge stay together.                                  *)
LEMMA SecondStays ==
    ASSUME ChainInv, Kept, RowsKept, NEW e \in 1 .. Len(envelopes), MergeIsWhole(e),
           NEW B, \A n : Known(n)' => Known(n) \/ n \in B,
           envelopes[e].kind = "merge" /\ envelopes[e].next[1] \in B => envelopes[e].next[2] \in Ids(rows')
    PROVE  MergeIsWhole(e)'
<1>1. /\ envelopes'[e].kind = envelopes[e].kind /\ envelopes'[e].on = envelopes[e].on
      /\ envelopes'[e].next = envelopes[e].next /\ purging \subseteq purging'
    BY DEF Kept
<1>2. PICK x : x = envelopes[e]
    OBVIOUS
<1>3. SUFFICES ASSUME x.kind = "merge", Known(x.next[1])' PROVE x.next[2] \in Ids(rows') \/ x.on[2] \in purging
    <2>1. PICK n : n = x.next[1]
        OBVIOUS
    <2>2. envelopes'[e].next[1] = n /\ envelopes'[e].next[2] = x.next[2] /\ envelopes'[e].on[2] = x.on[2]
          /\ envelopes'[e].kind = x.kind
        BY ZenonT(30), <1>1, <1>2, <2>1
    <2>3. Known(envelopes[e].next[1])' => Known(n)'
        BY <2>2 DEF Known
    <2>4. x.kind = "merge" /\ Known(n)' => x.next[2] \in Ids(rows') \/ x.on[2] \in purging
        BY <1>3, <2>1
    <2>5. Ids(rows)' = Ids(rows')
        BY DEF Ids
    <2> QED BY ZenonT(30), <1>1, <2>2, <2>3, <2>4, <2>5 DEF MergeIsWhole
<1>4. CASE x.next[1] \in B
    BY ZenonT(30), <1>2, <1>3, <1>4
<1>5. CASE Known(x.next[1])
    <2>1. x.next[2] \in Ids(rows) \/ x.on[2] \in purging
        BY ZenonT(30), <1>2, <1>3, <1>5 DEF MergeIsWhole
    <2>2. ASSUME x.next[2] \in Ids(rows) PROVE x.next[2] \in Ids(rows') \/ x.on[2] \in purging
        <3>1. PICK r \in rows : r.id = x.next[2]
            BY <2>2 DEF Ids
        <3>2. r \in Copies /\ EnvelopeOK(e)
            BY CopiesFacts DEF ChainInv
        <3>3. r.merged_into # None /\ r.logical = x.on[2]
            BY ZenonT(30), <1>2, <1>3, <3>1, <3>2 DEF EnvelopeOK, NamesOK
        <3>4. r \in rows' \/ r.logical \in purging
            BY <3>3 DEF RowsKept, is_live
        <3> QED BY ZenonT(30), <3>1, <3>3, <3>4 DEF Ids
    <2> QED BY <2>1, <2>2
<1> QED BY ZenonT(30), <1>3, <1>4, <1>5

LEMMA TogetherStays ==
    ASSUME Typed, Kept, NEW c \in Callers, Builds(c), NEW e \in 1 .. Len(envelopes), StoredTogether(e)
    PROVE  StoredTogether(e)'
<1>1. PICK next : next = Range(envelopes[e].next)
    OBVIOUS
<1>2. Range(envelopes'[e].next) = next
    BY <1>1 DEF Kept
<1>3. \A d \in Callers : next \cap Built(d) # {} => next \subseteq Built(d)
    BY <1>1 DEF StoredTogether
<1>4. \A d \in Callers \ {c} : Built(d)' = Built(d)
    BY OthersBuilt DEF Builds
<1>5. next \subseteq 1 .. given
    BY <1>1, KnownIsGiven
<1>6. next \cap Built(c)' # {} => next \subseteq Built(c)'
    BY <1>3, <1>5 DEF Builds
<1>7. \A d \in Callers : next \cap Built(d)' # {} => next \subseteq Built(d)'
    BY ZenonT(30), <1>3, <1>4, <1>6
<1> QED BY <1>2, <1>7 DEF StoredTogether

LEMMA WholeStays ==
    ASSUME ChainInv, Kept, RowsKept, NEW c \in Callers, Builds(c), NEW e \in 1 .. Len(envelopes),
           StoredTogether(e), MergeIsWhole(e)
    PROVE  MergeIsWhole(e)'
<1>1. CASE \A n : Known(n)' => Known(n)
    <2>1. PICK B : B = {}
        OBVIOUS
    <2>2. \A n : Known(n)' => Known(n) \/ n \in B
        BY <1>1
    <2>3. envelopes[e].kind = "merge" /\ envelopes[e].next[1] \in B => envelopes[e].next[2] \in Ids(rows')
        BY <2>1
    <2> QED BY ZenonT(30), <2>2, <2>3, SecondStays
<1>2. CASE Built(c) \subseteq Ids(rows') /\ \A n : Known(n)' => Known(n) \/ n \in Built(c)
    <2>1. ASSUME envelopes[e].kind = "merge", envelopes[e].next[1] \in Built(c)
          PROVE  envelopes[e].next[2] \in Ids(rows')
        <3>1. PICK next : next = envelopes[e].next
            OBVIOUS
        <3>2. Len(next) = 2 /\ next \in Seq(1 .. given)
            <4>1. \A S : \A q \in Seq(S) : \A i \in 1 .. Len(q) : q[i] \in S
                BY SMTT(20)
            <4>2. envelopes[e] \in MutationEnvelope /\ NamesOK(e)
                BY ZenonT(30), <4>1 DEF ChainInv, Typed, EnvelopeOK
            <4> QED BY ZenonT(30), <2>1, <3>1, <4>2 DEF MutationEnvelope, NamesOK
        <3>3. 1 \in 1 .. 2 /\ 2 \in 1 .. 2
            BY SMTT(20)
        <3>4. next[1] \in Range(next) /\ next[2] \in Range(next)
            BY ZenonT(30), <3>2, <3>3, RangeFacts
        <3>5. Range(next) \subseteq Built(c)
            BY ZenonT(30), <2>1, <3>1, <3>4 DEF StoredTogether
        <3> QED BY ZenonT(30), <1>2, <3>1, <3>4, <3>5
    <2> QED BY ZenonT(30), <1>2, <2>1, SecondStays
<1> QED BY <1>1, <1>2 DEF Builds

(* A step of c keeps the invariant.                                         *)
LEMMA NodeStep ==
    ASSUME ChainInv, ChainInv', NodeInv, Kept, RowsKept, NEW c \in Callers, Builds(c), redo' = redo,
           \A r \in rows' : r \in rows \/ (Linked(r)' /\ (r.until = None \/ Superseded(r)')),
           \A n \in nodes \ nodes' : Expendable(n) /\ \A d \in Callers \ {c} : n \notin Built(d),
           NodesAdded(c)', Purges(c)',
           \A e \in 1 .. Len(envelopes') :
              e \in 1 .. Len(envelopes) \/ (StoredTogether(e)' /\ MergeIsWhole(e)')
    PROVE  NodeInv'
<1>1. \A r \in rows' : Linked(r)' /\ (r.until # None => Superseded(r)')
    BY RowsStayLinked
<1>2. Fresh'
    BY FreshStays DEF ChainInv, NodeInv
<1>3. \A r \in redo'.todo : is_live(r)
    BY DEF NodeInv
<1>4. ASSUME NEW d \in Callers \ {c} PROVE NodesAdded(d)' /\ Purges(d)'
    <2>1. call'[d] = call[d] /\ Built(d)' = Built(d)
        BY OthersBuilt DEF Builds
    <2>2. NodesAdded(d) /\ Purges(d)
        BY DEF NodeInv
    <2>3. \A n \in Built(d) : n \in nodes => n \in nodes'
        OBVIOUS
    <2>4. ASSUME call[d].pc = "node", NEW i \in 1 .. call[d].k - 1 PROVE call[d].next[i].id \in nodes'
        <3>1. PICK next : next = call[d].next
            BY ZenonT(30)
        <3>2. next \in Seq(Revision) /\ call[d].k \in 1 .. Len(next)
            BY ZenonT(30), <2>4, <3>1 DEF ChainInv, Typed, Call, CallOK, Shape
        <3>3. i \in 1 .. Len(next)
            BY ONLY <3>2, i \in 1 .. call[d].k - 1, SMTT(20)
        <3>4. next[i] \in Range(next)
            BY ZenonT(30), <3>2, <3>3, RangeFacts
        <3>5. next[i].id \in Built(d)
            BY ZenonT(30), <2>4, <3>1, <3>4 DEF Built, Ids, Unwritten
        <3> QED BY ZenonT(30), <2>2, <2>3, <2>4, <3>1, <3>5 DEF NodesAdded
    <2>5. call[d].pc = "append" /\ call[d].op # "Retract" => Built(d) \subseteq nodes'
        BY <2>2, <2>3 DEF NodesAdded
    <2>6. NodesAdded(d)'
        BY ZenonT(30), <2>1, <2>4, <2>5 DEF NodesAdded
    <2>7. Purges(d)'
        <3>1. PICK e : e = call[d].env
            OBVIOUS
        <3>2. call[d].pc \in {"sweep", "unlink"} => e \in 1 .. Len(envelopes) /\ envelopes[e].kind = "purge"
            BY <2>2, <3>1 DEF Purges
        <3>3. call[d].pc \in {"sweep", "unlink"} => e \in 1 .. Len(envelopes') /\ envelopes'[e].kind = "purge"
            BY <3>2 DEF Kept
        <3> QED BY ZenonT(30), <2>1, <3>1, <3>3 DEF Purges
    <2> QED BY <2>6, <2>7
<1>5. \A d \in Callers : NodesAdded(d)' /\ Purges(d)'
    BY <1>4
<1>6. ASSUME NEW e \in 1 .. Len(envelopes) PROVE StoredTogether(e)' /\ MergeIsWhole(e)'
    <2>1. StoredTogether(e) /\ MergeIsWhole(e)
        BY DEF NodeInv
    <2>2. StoredTogether(e)'
        BY ZenonT(30), <2>1, TogetherStays DEF ChainInv
    <2>3. MergeIsWhole(e)'
        BY ZenonT(30), <2>1, WholeStays
    <2> QED BY <2>2, <2>3
<1>7. \A e \in 1 .. Len(envelopes') : StoredTogether(e)' /\ MergeIsWhole(e)'
    BY <1>6
<1> QED BY ZenonT(30), <1>1, <1>2, <1>3, <1>5, <1>7 DEF NodeInv, is_live

(* So does a step that leaves all callers idle.                             *)
LEMMA RestStep ==
    ASSUME ChainInv, ChainInv', NodeInv, Kept, RowsKept, Len(envelopes') = Len(envelopes),
           \A c \in Callers : call'[c] = Idle, \A n : Known(n)' => Known(n),
           \A r \in rows' : r \in rows \/ (Linked(r)' /\ (r.until = None \/ Superseded(r)')),
           \A n \in nodes \ nodes' : Expendable(n), \A r \in redo'.todo : is_live(r)
    PROVE  NodeInv'
<1>1. \A r \in rows' : Linked(r)' /\ (r.until # None => Superseded(r)')
    BY RowsStayLinked
<1>2. \A c \in Callers : call'[c].pc = "idle" /\ Built(c)' = {}
    BY IdleFacts DEF Built, Unwritten
<1>3. Fresh'
    BY <1>2 DEF Fresh
<1>4. \A c \in Callers : NodesAdded(c)' /\ Purges(c)'
    BY <1>2 DEF NodesAdded, Purges
<1>5. \A e \in 1 .. Len(envelopes') : StoredTogether(e)'
    BY <1>2 DEF StoredTogether
<1>6. ASSUME NEW e \in 1 .. Len(envelopes') PROVE MergeIsWhole(e)'
    <2>1. e \in 1 .. Len(envelopes) /\ MergeIsWhole(e)
        BY DEF NodeInv
    <2>2. PICK B : B = {}
        OBVIOUS
    <2>3. \A n : Known(n)' => Known(n) \/ n \in B
        OBVIOUS
    <2>4. envelopes[e].kind = "merge" /\ envelopes[e].next[1] \in B => envelopes[e].next[2] \in Ids(rows')
        BY <2>2
    <2> QED BY ZenonT(30), <2>1, <2>3, <2>4, SecondStays
<1> QED BY ZenonT(30), <1>1, <1>3, <1>4, <1>5, <1>6 DEF NodeInv, is_live

(* A step of c that stores no row and removes no node.                      *)
LEMMA QuietNodes ==
    ASSUME ChainInv, ChainInv', NodeInv, NEW c \in Callers, UNCHANGED <<rows, redo, purging>>, nodes \subseteq nodes',
           \/ envelopes' = envelopes
           \/ \E e \in Nat, s \in {"applied", "failed"} : Set(e, s),
           \A d \in Callers \ {c} : call'[d] = call[d],
           \A m \in Memories : cache'[m] # None => Known(cache'[m].id),
           \A n \in Read(c)' : Known(n),
           Built(c)' = Built(c) \/ Built(c)' = {},
           NodesAdded(c)', Purges(c)'
    PROVE  NodeInv'
<1>1. Kept /\ Len(envelopes') = Len(envelopes)
    BY StatesKept DEF ChainInv
<1>2. RowsKept
    BY DEF RowsKept
<1>3. \A n : Known(n)' => Known(n)
    <2>1. PICK B : B = {}
        OBVIOUS
    <2>2. \A d \in Callers \ {c} : Read(d)' = Read(d)
        BY DEF Read, Ids
    <2>3. \A d \in Callers : \A n \in Read(d)' : Known(n)
        BY <2>2, KnownFacts
    <2>4. \A e \in 1 .. Len(envelopes') : \A n \in envelopes'[e].prior : Known(n)
        BY ZenonT(30), <1>1, KnownFacts DEF Kept
    <2>5. /\ \A r \in rows' : Known(r.id)
          /\ \A r \in redo'.todo \cup redo'.held : Known(r.id)
        BY KnownFacts
    <2>6. \A n : Known(n)' => Known(n) \/ n \in B
        BY ZenonT(30), <2>3, <2>4, <2>5, NextKnown
    <2> QED BY <2>1, <2>6
<1>4. Builds(c)
    BY <1>3 DEF Builds
<1>5. \A n \in nodes \ nodes' : Expendable(n) /\ \A d \in Callers \ {c} : n \notin Built(d)
    OBVIOUS
<1>6. \A r \in rows' : r \in rows
    OBVIOUS
<1>7. \A e \in 1 .. Len(envelopes') : e \in 1 .. Len(envelopes)
    BY <1>1
<1>8. redo' = redo
    OBVIOUS
<1> QED BY ZenonT(30), <1>1, <1>2, <1>4, <1>5, <1>6, <1>7, <1>8, NodeStep

(* ... to or between stages with nothing built                              *)
LEMMA QuietRest ==
    ASSUME ChainInv, ChainInv', NodeInv, NEW c \in Callers, UNCHANGED <<rows, redo, purging>>, nodes \subseteq nodes',
           \/ envelopes' = envelopes
           \/ \E e \in Nat, s \in {"applied", "failed"} : Set(e, s),
           \A d \in Callers \ {c} : call'[d] = call[d],
           \A m \in Memories : cache'[m] # None => Known(cache'[m].id),
           \A n \in Read(c)' : Known(n),
           call'[c].pc \notin Unwritten \cup {"sweep", "unlink"}
    PROVE  NodeInv'
<1>1. Built(c)' = {}
    BY DEF Built
<1>2. NodesAdded(c)' /\ Purges(c)'
    BY DEF NodesAdded, Purges, Unwritten
<1> QED BY ZenonT(30), <1>1, <1>2, QuietNodes

(* What a call has read once it moves or returns                            *)
LEMMA ReadMoved ==
    ASSUME NEW c \in Callers, call'[c].prior = call[c].prior, call'[c].next = call[c].next,
           call[c].pc \in Unwritten => call'[c].pc \in Unwritten
    PROVE  \A n \in Read(c)' : Known(n)
<1>1. Read(c)' \subseteq Read(c)
    BY DEF Read, Ids
<1> QED BY ZenonT(30), <1>1, KnownFacts

LEMMA ReadIdle ==
    ASSUME NEW c \in Callers, call'[c] = Idle
    PROVE  Read(c)' = {} /\ call'[c].pc \notin Unwritten \cup {"sweep", "unlink"}
<1>1. call'[c].pc = "idle" /\ Range(call'[c].prior) = {} /\ Range(call'[c].next) = {}
    BY IdleFacts
<1> QED BY <1>1 DEF Read, Ids, Unwritten

(* The call returns, or goes on with what it has read.                      *)
LEMMA ReturnNodes ==
    ASSUME ChainInv, ChainInv', NodeInv, NEW c \in Callers, Return(c),
           UNCHANGED <<rows, redo, purging, cache, given>>, nodes' = nodes,
           \/ envelopes' = envelopes
           \/ \E e \in Nat, s \in {"applied", "failed"} : Set(e, s)
    PROVE  NodeInv'
<1>1. call'[c] = Idle /\ \A d \in Callers \ {c} : call'[d] = call[d]
    BY ZenonT(30), ReturnFacts DEF ChainInv
<1>2. Read(c)' = {} /\ call'[c].pc \notin Unwritten \cup {"sweep", "unlink"}
    BY <1>1, ReadIdle
<1>3. \A m \in Memories : cache'[m] # None => Known(cache'[m].id)
    BY KnownFacts
<1> QED BY ZenonT(30), <1>1, <1>2, <1>3, QuietRest

LEMMA MoveNodes ==
    ASSUME ChainInv, ChainInv', NodeInv, NEW c \in Callers, Moved(c),
           UNCHANGED <<rows, redo, purging, envelopes, given>>, nodes' = nodes,
           \A m \in Memories : cache'[m] # None => Known(cache'[m].id),
           call[c].pc \notin Unwritten, call'[c].pc \notin Unwritten \cup {"sweep", "unlink"}
    PROVE  NodeInv'
<1>1. \A n \in Read(c)' : Known(n)
    BY ReadMoved DEF Moved
<1>2. \A d \in Callers \ {c} : call'[d] = call[d]
    BY DEF Moved
<1> QED BY ZenonT(30), <1>1, <1>2, QuietRest

(* Heads taken over into the cache, and heads taken out                     *)
LEMMA CachedKnown ==
    ASSUME Typed, NEW S, S \subseteq Revision, \A r \in S : Known(r.id),
           NEW heads \in [Memories -> Revision \cup {None}],
           \A m \in Memories : heads[m] # None => Known(heads[m].id),
           \/ cache' = CachedAll(heads, S)
           \/ \E r \in S : cache' = Cached(heads, r)
    PROVE  \A m \in Memories : cache'[m] # None => Known(cache'[m].id)
<1>1. /\ CachedAll(heads, S) \in [Memories -> Revision \cup {None}]
      /\ \A m \in Memories :
            \/ CachedAll(heads, S)[m] = heads[m]
            \/ CachedAll(heads, S)[m] \in S /\ CachedAll(heads, S)[m].logical = m
      /\ \A r \in S : /\ Cached(heads, r) \in [Memories -> Revision \cup {None}]
                      /\ \A m \in Memories :
                            \/ Cached(heads, r)[m] = heads[m]
                            \/ Cached(heads, r)[m] = r /\ r.logical = m
    <2>1. given \in Nat
        BY DEF Typed
    <2> QED BY <2>1, CachedFacts
<1>2. ASSUME NEW m \in Memories PROVE cache'[m] = heads[m] \/ cache'[m] \in S
    <2>1. CASE cache' = CachedAll(heads, S)
        BY <1>1, <2>1
    <2>2. CASE \E r \in S : cache' = Cached(heads, r)
        <3>1. PICK r \in S : cache' = Cached(heads, r)
            BY <2>2
        <3>2. Cached(heads, r)[m] = heads[m] \/ Cached(heads, r)[m] = r
            BY <1>1
        <3> QED BY <3>1, <3>2
    <2> QED BY ZenonT(30), <2>1, <2>2
<1> QED BY <1>2

LEMMA EvictedKnown ==
    ASSUME Typed, NEW n, cache' = Evicted(n)
    PROVE  \A m \in Memories : cache'[m] # None => Known(cache'[m].id)
<1>1. \A m \in Memories : cache'[m] = None \/ cache'[m] = cache[m]
    BY DEF Evicted, Typed
<1> QED BY ZenonT(30), <1>1, KnownFacts

LEMMA AskNodes ==
    ASSUME ChainInv, ChainInv', NodeInv, NEW c \in Callers, Ask(c)
    PROVE  NodeInv'
<1>0. \E op, on, at : at \in {"unique", "resolve", "history", "scan"} /\ Begin(c, op, on, at)
    <2>1. CASE \E m \in Memories \ born : Begin(c, "Create", <<m>>, "unique")
        BY <2>1
    <2>2. CASE \E m \in born, op \in {"Correct", "Supersede", "Retract"} : Begin(c, op, <<m>>, "resolve")
        BY <2>2
    <2>3. CASE \E m, n \in born : Begin(c, "Merge", <<m, n>>, "resolve")
        BY <2>3
    <2>4. CASE \E m \in born : Begin(c, "Purge", <<m>>, "history")
        BY <2>4
    <2>5. CASE Begin(c, "Repair", Listed(Memories), "scan")
        BY <2>5
    <2> QED BY ZenonT(30), <2>1, <2>2, <2>3, <2>4, <2>5 DEF Ask
<1>1. PICK op, on, at : at \in {"unique", "resolve", "history", "scan"} /\ Begin(c, op, on, at)
    BY <1>0
<1>2. /\ UNCHANGED <<rows, nodes, envelopes, cache, redo, purging>>
      /\ call' = [call EXCEPT ![c] = [Idle EXCEPT !.pc = at, !.op = op, !.on = on]]
    BY <1>1 DEF Begin, store, bounds
<1>3. PICK y : y = [Idle EXCEPT !.pc = at, !.op = op, !.on = on]
    OBVIOUS
<1>4. y.pc = at /\ y.prior = <<>> /\ y.next = <<>>
    BY ONLY <1>3, ZenonT(30) DEF Idle
<1>5. call'[c] = y /\ \A d \in Callers \ {c} : call'[d] = call[d]
    BY ZenonT(30), <1>2, <1>3 DEF ChainInv, Typed
<1>6. Range(<<>>) = {}
    BY SMTT(20) DEF Range
<1>7. Read(c)' = {}
    BY ZenonT(30), <1>4, <1>5, <1>6 DEF Read, Ids
<1>8. call'[c].pc \notin Unwritten \cup {"sweep", "unlink"}
    BY ZenonT(30), <1>1, <1>4, <1>5 DEF Unwritten
<1>9. \A m \in Memories : cache'[m] # None => Known(cache'[m].id)
    BY <1>2, KnownFacts
<1> QED BY ZenonT(30), <1>2, <1>5, <1>7, <1>8, <1>9, QuietRest

LEMMA UniqueNodes ==
    ASSUME ChainInv, ChainInv', NodeInv, NEW c \in Callers, Unique(c)
    PROVE  NodeInv'
<1>1. /\ call[c].pc = "unique" /\ UNCHANGED <<rows, nodes, envelopes, cache, redo, purging, given>>
      /\ Return(c) \/ Go(c, "intend")
    BY DEF Unique, Up, store, bounds, ghosts
<1>2. CASE Return(c)
    BY ZenonT(30), <1>1, <1>2, ReturnNodes
<1>3. CASE Go(c, "intend")
    <2>1. Moved(c) /\ call'[c].pc = "intend"
        BY ZenonT(30), <1>1, <1>3, GoFacts DEF ChainInv, Stages
    <2>2. \A m \in Memories : cache'[m] # None => Known(cache'[m].id)
        BY <1>1, KnownFacts
    <2>3. call[c].pc \notin Unwritten /\ call'[c].pc \notin Unwritten \cup {"sweep", "unlink"}
        BY <1>1, <2>1 DEF Unwritten
    <2> QED BY ZenonT(30), <1>1, <2>1, <2>2, <2>3, MoveNodes
<1> QED BY ZenonT(30), <1>1, <1>2, <1>3

(* An accepted head was known.                                              *)
LEMMA AcceptReads ==
    ASSUME ChainInv, NEW c \in Callers, call[c].pc \notin Unwritten, NEW head \in Revision, Known(head.id),
           Accept(c, head), given' = given
    PROVE  /\ \A d \in Callers \ {c} : call'[d] = call[d]
           /\ \A n \in Read(c)' : Known(n)
           /\ call'[c].pc \notin Unwritten \cup {"sweep", "unlink"}
<1>1. Typed /\ call \in [Callers -> Call]
    BY DEF ChainInv, Typed
<1>2. CASE ~is_live(head)
    <2>1. call'[c] = Idle /\ \A d \in Callers \ {c} : call'[d] = call[d]
        BY ZenonT(30), <1>1, <1>2, ReturnFacts DEF Accept
    <2> QED BY <2>1, ReadIdle
<1>3. CASE is_live(head)
    <2> DEFINE at == IF Len(call[c].prior) + 1 = Len(call[c].on) THEN "intend" ELSE "resolve"
    <2>1. PICK x \in Call : x = call[c]
        BY <1>1
    <2>2. PICK q : q = Append(x.prior, head)
        OBVIOUS
    <2>3. PICK y : y = [x EXCEPT !.prior = q, !.pc = at, !.next = <<>>]
        OBVIOUS
    <2>4. y.prior = q /\ y.pc = at /\ y.next = <<>>
        BY ONLY <2>3, x \in Call, SMTT(20) DEF Call
    <2>5. call' = [call EXCEPT ![c] = y]
        BY ZenonT(30), <1>1, <1>3, <2>1, <2>2, <2>3 DEF Accept
    <2>6. call'[c] = y /\ \A d \in Callers \ {c} : call'[d] = call[d]
        BY <1>1, <2>5
    <2>7. at \notin Unwritten \cup {"sweep", "unlink"}
        BY DEF Unwritten
    <2> HIDE DEF at
    <2>8. Range(q) \subseteq Range(x.prior) \cup {head} /\ Range(<<>>) = {}
        <3>1. x.prior \in Seq(Revision)
            BY DEF Call
        <3>2. /\ q \in Seq(Revision) /\ Len(q) = Len(x.prior) + 1 /\ q[Len(q)] = head
              /\ \A i \in 1 .. Len(x.prior) : q[i] = x.prior[i]
              /\ \A i \in 1 .. Len(q) : i \in 1 .. Len(x.prior) \/ i = Len(q)
            BY ONLY <2>2, <3>1, head \in Revision, SMTT(20)
        <3>3. \A r : r \in Range(q) <=> \E i \in 1 .. Len(q) : q[i] = r
            BY ZenonT(30), <3>2, RangeFacts
        <3>4. \A r : r \in Range(x.prior) <=> \E i \in 1 .. Len(x.prior) : x.prior[i] = r
            BY ZenonT(30), <3>1, RangeFacts
        <3>5. Range(<<>>) = {}
            BY SMT DEF Range
        <3> QED BY ZenonT(30), <3>2, <3>3, <3>4, <3>5
    <2>9. ASSUME NEW n \in Read(c)' PROVE Known(n)
        <3>1. n \in Ids(Range(x.prior)) \/ n = head.id
            BY ZenonT(30), <2>4, <2>6, <2>7, <2>8 DEF Read, Ids
        <3>2. Ids(Range(x.prior)) \subseteq Read(c)
            BY <2>1 DEF Read
        <3> QED BY ZenonT(30), <3>1, <3>2, KnownFacts
    <2> QED BY ZenonT(30), <2>4, <2>6, <2>7, <2>9
<1> QED BY ZenonT(30), <1>2, <1>3

LEMMA ResolveNodes ==
    ASSUME ChainInv, ChainInv', NodeInv, NEW c \in Callers, Resolve(c)
    PROVE  NodeInv'
<1> DEFINE m == call[c].on[Len(call[c].prior) + 1]
<1>1. call[c].pc = "resolve" /\ UNCHANGED <<rows, nodes, envelopes, cache, redo, purging, given>>
    BY ZenonT(30) DEF Resolve, Up, store, bounds, ghosts
<1>2. Typed /\ CallOK(c) /\ call \in [Callers -> Call]
    BY DEF ChainInv, Typed
<1>3. m \in Memories
    <2>1. Len(call[c].prior) < Len(call[c].on)
        BY ZenonT(30), <1>1, <1>2 DEF CallOK, Shape
    <2>2. call[c].prior \in Seq(Revision) /\ call[c].on \in Seq(Memories)
        BY <1>2 DEF Call
    <2> QED BY SMTT(20), <2>1, <2>2
<1>4. call[c].pc \notin Unwritten
    BY <1>1 DEF Unwritten
<1>5. \A n \in Memories : cache'[n] # None => Known(cache'[n].id)
    BY <1>1, KnownFacts
<1> HIDE DEF m
<1>6. CASE Return(c)
    BY ZenonT(30), <1>1, <1>6, ReturnNodes
<1>7. CASE cache[m] # None /\ Accept(c, cache[m])
    <2>1. cache[m] \in Revision /\ Known(cache[m].id)
        BY ZenonT(30), <1>2, <1>3, <1>7, KnownFacts DEF Typed
    <2>2. /\ \A d \in Callers \ {c} : call'[d] = call[d]
          /\ \A n \in Read(c)' : Known(n)
          /\ call'[c].pc \notin Unwritten \cup {"sweep", "unlink"}
        BY ZenonT(30), <1>1, <1>4, <1>7, <2>1, AcceptReads
    <2> QED BY ZenonT(30), <1>1, <1>5, <2>2, QuietRest
<1>8. CASE Of(m) # {} /\ call' = [call EXCEPT ![c].next = <<HeadOf(Of(m))>>, ![c].pc = "loaded"]
    <2>1. HeadOf(Of(m)) \in Of(m)
        <3>1. Of(m) \subseteq Revision
            BY <1>2 DEF Of, Typed
        <3> QED BY ZenonT(30), <1>2, <1>8, <3>1, HeadFacts DEF Typed
    <2>2. PICK h : h = HeadOf(Of(m))
        OBVIOUS
    <2>3. h \in rows
        BY <2>1, <2>2 DEF Of
    <2>4. PICK x \in Call : x = call[c]
        BY <1>2
    <2>5. PICK y : y = [x EXCEPT !.next = <<h>>, !.pc = "loaded"]
        OBVIOUS
    <2>6. y.next = <<h>> /\ y.pc = "loaded" /\ y.prior = x.prior
        BY ONLY <2>5, x \in Call, SMTT(20) DEF Call
    <2>7. call' = [call EXCEPT ![c] = y]
        BY ZenonT(30), <1>2, <1>8, <2>2, <2>4, <2>5
    <2>8. call'[c] = y /\ \A d \in Callers \ {c} : call'[d] = call[d]
        BY ZenonT(30), <1>2, <2>7
    <2>9. Range(<<h>>) = {h}
        BY SMTT(20) DEF Range
    <2>10. ASSUME NEW n \in Read(c)' PROVE Known(n)
        <3>1. n \in Ids(Range(x.prior)) \/ n = h.id
            BY ZenonT(30), <2>6, <2>8, <2>9 DEF Read, Ids
        <3>2. Ids(Range(x.prior)) \subseteq Read(c)
            BY <2>4 DEF Read
        <3> QED BY ZenonT(30), <2>3, <3>1, <3>2, KnownFacts
    <2>11. call'[c].pc \notin Unwritten \cup {"sweep", "unlink"}
        BY <2>6, <2>8 DEF Unwritten
    <2> QED BY ZenonT(30), <1>1, <1>5, <2>8, <2>10, <2>11, QuietRest
<1> QED BY ZenonT(30), <1>6, <1>7, <1>8 DEF Resolve, m

LEMMA LoadedNodes ==
    ASSUME ChainInv, ChainInv', NodeInv, NEW c \in Callers, Loaded(c)
    PROVE  NodeInv'
<1>1. /\ call[c].pc = "loaded" /\ UNCHANGED <<rows, nodes, envelopes, redo, purging, given>>
      /\ cache' = Cached(cache, call[c].next[1]) /\ Accept(c, call[c].next[1])
    BY DEF Loaded, Up, store, bounds, ghosts
<1>2. Typed /\ CallOK(c) /\ call \in [Callers -> Call]
    BY DEF ChainInv, Typed
<1>3. PICK q : q = call[c].next
    OBVIOUS
<1>4. PICK h : h = q[1]
    OBVIOUS
<1>5. h \in Range(q) /\ h \in Revision
    <2>1. Len(q) = 1 /\ q \in Seq(Revision)
        BY ZenonT(30), <1>1, <1>2, <1>3 DEF CallOK, Shape, Call
    <2>2. 1 \in 1 .. 1
        BY SMTT(20)
    <2> QED BY ZenonT(30), <1>4, <2>1, <2>2, RangeFacts
<1>6. call[c].pc \notin Unwritten
    BY <1>1 DEF Unwritten
<1>7. Known(h.id)
    <2>1. h.id \in Read(c)
        BY ZenonT(30), <1>3, <1>5, <1>6 DEF Read, Ids
    <2> QED BY <2>1, KnownFacts
<1>8. \A m \in Memories : cache'[m] # None => Known(cache'[m].id)
    <2>1. PICK S : S = {h}
        OBVIOUS
    <2>2. S \subseteq Revision /\ (\A r \in S : Known(r.id)) /\ \E r \in S : cache' = Cached(cache, r)
        BY ZenonT(30), <1>1, <1>3, <1>4, <1>5, <1>7, <2>1
    <2>3. cache \in [Memories -> Revision \cup {None}] /\ \A m \in Memories : cache[m] # None => Known(cache[m].id)
        BY ZenonT(30), <1>2, KnownFacts DEF Typed
    <2> QED BY ZenonT(30), <1>2, <2>2, <2>3, CachedKnown
<1>9. /\ \A d \in Callers \ {c} : call'[d] = call[d]
      /\ \A n \in Read(c)' : Known(n)
      /\ call'[c].pc \notin Unwritten \cup {"sweep", "unlink"}
    BY ZenonT(30), <1>1, <1>3, <1>4, <1>5, <1>6, <1>7, AcceptReads
<1> QED BY ZenonT(30), <1>1, <1>8, <1>9, QuietRest

LEMMA FailFinishNodes ==
    ASSUME ChainInv, ChainInv', NodeInv, NEW c \in Callers, Fail(c) \/ Finish(c)
    PROVE  NodeInv'
<1>1. /\ Return(c) /\ UNCHANGED <<rows, nodes, cache, redo, purging, given>>
      /\ envelopes' = envelopes \/ \E s \in {"applied", "failed"} : Set(call[c].env, s)
    BY ZenonT(30) DEF Fail, Finish, ghosts
<1>2. call[c].env \in Nat
    BY DEF ChainInv, Typed, Call
<1>3. envelopes' = envelopes \/ \E e \in Nat, s \in {"applied", "failed"} : Set(e, s)
    BY <1>1, <1>2
<1> QED BY ZenonT(30), <1>1, <1>3, ReturnNodes

LEMMA AuditNodes ==
    ASSUME ChainInv, ChainInv', NodeInv, NEW c \in Callers, Audit(c)
    PROVE  NodeInv'
<1>1. /\ call[c].pc = "audit" /\ UNCHANGED <<rows, nodes, envelopes, cache, redo, purging, given>>
      /\ Return(c) \/ NextPrior(c, "close", "cache", TRUE)
    BY DEF Audit, Up, store
<1>2. CASE Return(c)
    BY ZenonT(30), <1>1, <1>2, ReturnNodes
<1>3. CASE NextPrior(c, "close", "cache", TRUE)
    <2>1. "close" \in Stages /\ "cache" \in Stages
        BY DEF Stages
    <2>2. Moved(c) /\ call'[c].pc = IF AtLast(c) THEN "cache" ELSE "close"
        BY ZenonT(30), <1>1, <1>3, <2>1, NextPriorFacts DEF ChainInv
    <2>3. call[c].pc \notin Unwritten /\ call'[c].pc \notin Unwritten \cup {"sweep", "unlink"}
        BY <1>1, <2>2 DEF Unwritten
    <2>4. \A m \in Memories : cache'[m] # None => Known(cache'[m].id)
        BY <1>1, KnownFacts
    <2> QED BY ZenonT(30), <1>1, <2>2, <2>3, <2>4, MoveNodes
<1> QED BY ZenonT(30), <1>1, <1>2, <1>3

LEMMA CacheNodes ==
    ASSUME ChainInv, ChainInv', NodeInv, NEW c \in Callers, Cache(c)
    PROVE  NodeInv'
<1> DEFINE at == IF call[c].prior = <<>> THEN "finish" ELSE "remove"
<1>1. /\ call[c].pc = "cache" /\ UNCHANGED <<rows, nodes, envelopes, redo, purging, given>>
      /\ cache' = CachedAll(cache, Range(call[c].next)) /\ Go(c, at)
    BY DEF Cache, Up, store, ghosts, bounds
<1>2. at \in Stages /\ at \notin Unwritten \cup {"sweep", "unlink"} /\ call[c].pc \notin Unwritten
    BY <1>1 DEF Stages, Unwritten
<1> HIDE DEF at
<1>3. Typed
    BY DEF ChainInv
<1>4. Moved(c) /\ call'[c].pc = at
    BY ZenonT(30), <1>1, <1>2, <1>3, GoFacts
<1>5. PICK S : S = Range(call[c].next)
    OBVIOUS
<1>6. S \subseteq Revision /\ \A r \in S : Known(r.id)
    <2>1. call[c].next \in Seq(Revision)
        BY <1>3 DEF Typed, Call
    <2>2. \A r \in S : r.id \in Read(c)
        BY ZenonT(30), <1>2, <1>5 DEF Read, Ids
    <2> QED BY ZenonT(30), <1>5, <2>1, <2>2, RangeFacts, KnownFacts
<1>7. cache \in [Memories -> Revision \cup {None}] /\ \A m \in Memories : cache[m] # None => Known(cache[m].id)
    BY ZenonT(30), <1>3, KnownFacts DEF Typed
<1>8. \A m \in Memories : cache'[m] # None => Known(cache'[m].id)
    <2>1. cache' = CachedAll(cache, S)
        BY ZenonT(30), <1>1, <1>5
    <2> QED BY ZenonT(30), <1>3, <1>6, <1>7, <2>1, CachedKnown
<1> QED BY ZenonT(30), <1>1, <1>2, <1>4, <1>8, MoveNodes

LEMMA ScanNodes ==
    ASSUME ChainInv, ChainInv', NodeInv, NEW c \in Callers, Scan(c)
    PROVE  NodeInv'
<1> DEFINE M == {n \in Memories : Of(n) # {} /\ ChainIsClean(Of(n))}
<1>1. PICK H : H = {HeadOf(Of(m)) : m \in M}
    OBVIOUS
<1>2. /\ call[c].pc = "scan" /\ UNCHANGED <<rows, nodes, envelopes, cache, redo, purging, given>>
      /\ call' = [call EXCEPT ![c].pc = "replace", ![c].next = Listed(H)]
    BY ZenonT(30), <1>1 DEF Scan, Up, store, ghosts, bounds
<1>3. Typed /\ call \in [Callers -> Call]
    BY DEF ChainInv, Typed
<1>4. H \subseteq rows /\ Listed(H) \in Seq(H)
    <2>1. M \subseteq Memories /\ \A m \in M : Of(m) # {}
        OBVIOUS
    <2> HIDE DEF M
    <2> QED BY ZenonT(30), <1>1, <1>3, <2>1, ScanFacts
<1>5. PICK q : q = Listed(H)
    OBVIOUS
<1>6. Range(q) \subseteq rows
    BY ZenonT(30), <1>4, <1>5, RangeFacts
<1>7. PICK x \in Call : x = call[c]
    BY <1>3
<1>8. PICK y : y = [x EXCEPT !.pc = "replace", !.next = q]
    OBVIOUS
<1>9. y.pc = "replace" /\ y.next = q /\ y.prior = x.prior
    BY ONLY <1>8, x \in Call, SMTT(20) DEF Call
<1>10. call' = [call EXCEPT ![c] = y]
    BY ZenonT(30), <1>2, <1>3, <1>5, <1>7, <1>8
<1>11. call'[c] = y /\ \A d \in Callers \ {c} : call'[d] = call[d]
    BY <1>3, <1>10
<1>12. ASSUME NEW n \in Read(c)' PROVE Known(n)
    <2>1. n \in Ids(Range(x.prior)) \/ n \in Ids(Range(q))
        BY ZenonT(30), <1>9, <1>11 DEF Read, Ids
    <2>2. Ids(Range(x.prior)) \subseteq Read(c)
        BY <1>7 DEF Read
    <2>3. \A k \in Ids(Range(q)) : Known(k)
        BY ZenonT(30), <1>6, KnownFacts DEF Ids
    <2> QED BY ZenonT(30), <2>1, <2>2, <2>3, KnownFacts
<1>13. call'[c].pc \notin Unwritten \cup {"sweep", "unlink"}
    BY ZenonT(30), <1>9, <1>11 DEF Unwritten
<1>14. \A m \in Memories : cache'[m] # None => Known(cache'[m].id)
    BY ZenonT(30), <1>2, KnownFacts
<1> QED BY ZenonT(30), <1>2, <1>11, <1>12, <1>13, <1>14, QuietRest

LEMMA ReplaceNodes ==
    ASSUME ChainInv, ChainInv', NodeInv, NEW c \in Callers, Replace(c)
    PROVE  NodeInv'
<1>1. /\ call[c].pc = "replace" /\ UNCHANGED <<rows, nodes, envelopes, redo, purging, given>>
      /\ cache' = CachedAll(NoHeads, Range(call[c].next)) /\ Return(c)
    BY ZenonT(30) DEF Replace, Up, store, ghosts, bounds
<1>2. Typed
    BY DEF ChainInv
<1>3. PICK S : S = Range(call[c].next)
    OBVIOUS
<1>4. S \subseteq Revision /\ \A r \in S : Known(r.id)
    <2>1. call[c].next \in Seq(Revision)
        BY <1>2 DEF Typed, Call
    <2>2. \A r \in S : r.id \in Read(c)
        BY <1>1, <1>3 DEF Read, Ids, Unwritten
    <2> QED BY <1>3, <2>1, <2>2, RangeFacts, KnownFacts
<1>5. PICK heads : heads = NoHeads
    OBVIOUS
<1>6. heads \in [Memories -> Revision \cup {None}] /\ \A m \in Memories : heads[m] # None => Known(heads[m].id)
    BY <1>5 DEF NoHeads
<1>7. \A m \in Memories : cache'[m] # None => Known(cache'[m].id)
    <2>1. cache' = CachedAll(heads, S)
        BY ZenonT(30), <1>1, <1>3, <1>5
    <2> QED BY ZenonT(30), <1>2, <1>4, <1>6, <2>1, CachedKnown
<1>8. call'[c] = Idle /\ \A d \in Callers \ {c} : call'[d] = call[d]
    BY ZenonT(30), <1>1, <1>2, ReturnFacts
<1>9. Read(c)' = {} /\ call'[c].pc \notin Unwritten \cup {"sweep", "unlink"}
    BY <1>8, ReadIdle
<1> QED BY ZenonT(30), <1>1, <1>7, <1>8, <1>9, QuietRest

-----------------------------------------------------------------------------
(* A superseded revision is no current fact.                                *)
LEMMA OldExpendable ==
    ASSUME ChainInv, NEW p \in Copies, Superseded(p)
    PROVE  Expendable(p.id)
<1>1. SUFFICES ASSUME NEW r \in rows, r.id = p.id PROVE r.logical \in purging \/ ~Newest(r)
    BY DEF Expendable
<1>2. SameFact(r, p)
    BY <1>1, CopiesFacts DEF ChainInv, CopiesAgree
<1>3. Superseded(r)
    BY <1>2 DEF Superseded, SameFact
<1> QED BY <1>3 DEF Superseded, Newest, semantic_revision_is_newer

LEMMA OldLinked ==
    ASSUME NEW r, Superseded(r)'
    PROVE  Linked(r)'
<1>1. r.logical \in purging' \/ \E s \in rows' : s.logical = r.logical /\ s.version > r.version
    BY DEF Superseded
<1>2. \A s : s.version > r.version => semantic_revision_is_newer(s, r)'
    BY DEF semantic_revision_is_newer
<1>3. r.logical \in purging' \/ ~Newest(r)'
    BY <1>1, <1>2 DEF Newest
<1> QED BY <1>3 DEF Linked

(* Deleting a live one that is superseded removes nothing that counts.      *)
LEMMA DeleteKept ==
    ASSUME ChainInv, NEW p \in Copies, is_live(p), Superseded(p), rows' = {r \in rows : r.id # p.id}
    PROVE  RowsKept
<1>1. SUFFICES ASSUME NEW s \in rows, s.id = p.id
               PROVE  \/ s.logical \in purging
                      \/ is_live(s) /\ \E u \in rows' : u.logical = s.logical /\ u.version > s.version
    BY DEF RowsKept
<1>2. \A r \in rows : r.id = p.id => SameFact(r, p)
    BY CopiesFacts DEF ChainInv, CopiesAgree
<1>3. is_live(s) /\ s.logical = p.logical /\ s.version = p.version
    <2>1. SameFact(s, p)
        BY <1>1, <1>2
    <2> QED BY <2>1 DEF SameFact, is_live
<1>4. CASE \E u \in rows : u.logical = p.logical /\ u.version > p.version
    <2>1. PICK u \in rows : u.logical = p.logical /\ u.version > p.version
        BY <1>4
    <2>2. p.version \in Nat
        <3>1. given \in Nat /\ p.version \in 1 .. given
            BY ZenonT(30), CopiesFacts DEF ChainInv, Typed, Revision
        <3> QED BY SMTT(20), <3>1
    <2>3. u.version # p.version
        BY SMTT(20), <2>1, <2>2
    <2>4. u.id # p.id
        BY <1>2, <2>3 DEF SameFact
    <2> QED BY <1>3, <2>1, <2>4
<1> QED BY <1>3, <1>4 DEF Superseded

(* A call without built revisions moves on, with the rows and nodes it      *)
(* writes or removes.                                                       *)
LEMMA MovedNodes ==
    ASSUME ChainInv, ChainInv', NodeInv, NEW c \in Callers, Moved(c),
           UNCHANGED <<redo, purging, envelopes, given>>, RowsKept,
           call[c].pc \notin Unwritten, call'[c].pc \notin Unwritten \cup {"sweep"},
           call'[c].pc = "unlink" => call[c].pc = "sweep",
           \A m \in Memories : cache'[m] # None => Known(cache'[m].id),
           \A r \in rows' : \/ r \in rows
                            \/ Known(r.id) /\ Linked(r)' /\ (r.until = None \/ Superseded(r)'),
           \A n \in nodes \ nodes' : Expendable(n) /\ Known(n)
    PROVE  NodeInv'
<1>1. Kept /\ Len(envelopes') = Len(envelopes)
    BY StatesKept DEF ChainInv
<1>2. \A d \in Callers \ {c} : call'[d] = call[d]
    BY DEF Moved
<1>3. \A n : Known(n)' => Known(n)
    <2>1. PICK B : B = {}
        OBVIOUS
    <2>2. \A n \in Read(c)' : Known(n)
        BY ReadMoved DEF Moved
    <2>3. \A d \in Callers \ {c} : Read(d)' = Read(d)
        BY <1>2 DEF Read, Ids
    <2>4. \A d \in Callers : \A n \in Read(d)' : Known(n)
        BY <2>2, <2>3, KnownFacts
    <2>5. \A e \in 1 .. Len(envelopes') : \A n \in envelopes'[e].prior : Known(n)
        BY KnownFacts
    <2>6. /\ \A r \in rows' : Known(r.id)
          /\ \A r \in redo'.todo \cup redo'.held : Known(r.id)
        BY KnownFacts
    <2>7. \A n : Known(n)' => Known(n) \/ n \in B
        BY ZenonT(30), <2>4, <2>5, <2>6, NextKnown
    <2> QED BY <2>1, <2>7
<1>4. Built(c)' = {} /\ Built(c) = {}
    BY DEF Built
<1>5. Builds(c)
    <2>1. Built(c)' = Built(c)
        BY <1>4
    <2> QED BY <1>2, <1>3, <2>1 DEF Builds
<1>6. NodesAdded(c)' /\ Purges(c)'
    <2>1. NodesAdded(c)'
        BY DEF NodesAdded, Unwritten
    <2>2. Purges(c) /\ call'[c].env = call[c].env
        BY DEF NodeInv, Moved
    <2>3. Purges(c)'
        BY <2>2 DEF Purges
    <2> QED BY <2>1, <2>3
<1>7. \A n \in nodes \ nodes' : Expendable(n) /\ \A d \in Callers \ {c} : n \notin Built(d)
    BY DEF NodeInv, Fresh
<1>8. \A r \in rows' : r \in rows \/ (Linked(r)' /\ (r.until = None \/ Superseded(r)'))
    OBVIOUS
<1>9. \A e \in 1 .. Len(envelopes') : e \in 1 .. Len(envelopes)
    BY <1>1
<1>10. redo' = redo
    OBVIOUS
<1> QED BY ZenonT(30), <1>1, <1>5, <1>6, <1>7, <1>8, <1>9, <1>10, NodeStep

(* A failed write on its way back                                           *)
LEMMA BackNodes ==
    ASSUME ChainInv, ChainInv', NodeInv, NEW c \in Callers, NEW at \in {"undo", "fail"}, Go(c, at),
           call[c].pc \in Unwritten,
           UNCHANGED <<rows, redo, purging, envelopes, cache, given>>,
           \A n \in nodes \ nodes' : n \in Built(c)
    PROVE  NodeInv'
<1>1. at \in Stages /\ at \in Unwritten
    BY DEF Stages, Unwritten
<1>2. Moved(c) /\ call'[c].pc = at
    BY <1>1, GoFacts DEF ChainInv
<1>3. Kept /\ Len(envelopes') = Len(envelopes) /\ RowsKept
    BY StatesKept DEF ChainInv, RowsKept
<1>4. \A d \in Callers \ {c} : call'[d] = call[d]
    BY <1>2 DEF Moved
<1>5. \A n : Known(n)' => Known(n)
    <2>1. PICK B : B = {}
        OBVIOUS
    <2>2. \A n \in Read(c)' : Known(n)
        BY <1>1, <1>2, ReadMoved DEF Moved
    <2>3. \A d \in Callers \ {c} : Read(d)' = Read(d)
        BY <1>4 DEF Read, Ids
    <2>4. \A d \in Callers : \A n \in Read(d)' : Known(n)
        BY <2>2, <2>3, KnownFacts
    <2>5. /\ \A e \in 1 .. Len(envelopes') : \A n \in envelopes'[e].prior : Known(n)
          /\ \A m \in Memories : cache'[m] # None => Known(cache'[m].id)
        BY KnownFacts
    <2>6. /\ \A r \in rows' : Known(r.id)
          /\ \A r \in redo'.todo \cup redo'.held : Known(r.id)
        BY KnownFacts
    <2>7. \A n : Known(n)' => Known(n) \/ n \in B
        BY ZenonT(30), <2>4, <2>5, <2>6, NextKnown
    <2> QED BY <2>1, <2>7
<1>6. Built(c)' = Built(c)
    BY <1>1, <1>2 DEF Built, Moved, Ids
<1>7. Builds(c)
    BY ZenonT(30), <1>4, <1>5, <1>6 DEF Builds
<1>8. NodesAdded(c)' /\ Purges(c)'
    BY <1>2 DEF NodesAdded, Purges
<1>9. ASSUME NEW n \in nodes \ nodes' PROVE Expendable(n) /\ \A d \in Callers \ {c} : n \notin Built(d)
    <2>1. n \in Built(c) /\ ~Known(n) /\ \A d \in Callers \ {c} : Built(c) \cap Built(d) = {}
        BY DEF NodeInv, Fresh
    <2>2. \A r \in rows : r.id # n
        BY <2>1, KnownFacts
    <2> QED BY <2>1, <2>2 DEF Expendable
<1>10. \A e \in 1 .. Len(envelopes') : e \in 1 .. Len(envelopes)
    BY <1>3
<1>11. redo' = redo /\ \A r \in rows' : r \in rows
    OBVIOUS
<1> QED BY ZenonT(30), <1>3, <1>7, <1>8, <1>9, <1>10, <1>11, NodeStep

LEMMA AddNodeNodes ==
    ASSUME ChainInv, ChainInv', NodeInv, NEW c \in Callers, AddNode(c)
    PROVE  NodeInv'
<1>1. call[c].pc = "node" /\ UNCHANGED <<rows, envelopes, cache, redo, purging, given>>
    BY DEF AddNode, Up, ghosts
<1>2. Typed /\ CallOK(c) /\ call \in [Callers -> Call]
    BY DEF ChainInv, Typed
<1>3. call[c].k \in 1 .. Len(call[c].next) /\ "node" \in Unwritten
    BY <1>1, <1>2 DEF CallOK, Shape, Unwritten
<1>4. call[c].next \in Seq(Revision) /\ call[c].k \in Nat /\ call[c].ok \in BOOLEAN
    BY <1>2 DEF Call
<1>5. ASSUME NEW at \in {"undo", "fail"}, Go(c, at), nodes' = nodes PROVE NodeInv'
    BY ZenonT(30), <1>1, <1>3, <1>5, BackNodes
<1>6. PICK q : q = call[c].next
    OBVIOUS
<1>7. PICK k \in Nat : k = call[c].k
    BY <1>4
<1>8. ASSUME nodes' = nodes \cup {q[k].id}, Moved(c), call'[c].pc \in {"node", "append"},
             call'[c].pc = "node" => call'[c].k = k + 1,
             call'[c].pc = "append" => k = Len(q)
      PROVE  NodeInv'
    <2>1. \A d \in Callers \ {c} : call'[d] = call[d]
        BY <1>8 DEF Moved
    <2>2. call'[c].pc \in Unwritten
        BY <1>8 DEF Unwritten
    <2>3. \A n \in Read(c)' : Known(n)
        BY <1>8, <2>2, ReadMoved DEF Moved
    <2>4. Built(c)' = Built(c) /\ Built(c) = Ids(Range(q))
        BY ZenonT(30), <1>1, <1>3, <1>6, <1>8, <2>2 DEF Built, Moved, Ids
    <2>5. \A m \in Memories : cache'[m] # None => Known(cache'[m].id)
        BY <1>1, KnownFacts
    <2>6. \A i \in 1 .. k : q[i].id \in nodes'
        <3>1. \A i \in 1 .. k - 1 : q[i].id \in nodes
            BY ZenonT(30), <1>1, <1>6, <1>7 DEF NodeInv, NodesAdded
        <3>2. \A i \in 1 .. k : i \in 1 .. k - 1 \/ i = k
            BY SMT
        <3> QED BY ZenonT(30), <1>8, <3>1, <3>2
    <2>7. NodesAdded(c)'
        <3>1. call'[c].pc = "node" => \A i \in 1 .. call'[c].k - 1 : call'[c].next[i].id \in nodes'
            <4>1. (k + 1) - 1 = k
                BY SMT
            <4> QED BY ZenonT(30), <1>6, <1>8, <2>6, <4>1 DEF Moved
        <3>2. call'[c].pc = "append" => Built(c)' \subseteq nodes'
            <4>1. q \in Seq(Revision)
                BY <1>4, <1>6
            <4>2. \A r \in Range(q) : \E i \in 1 .. Len(q) : q[i] = r
                BY <4>1, RangeFacts
            <4>3. call'[c].pc = "append" => \A r \in Range(q) : r.id \in nodes'
                BY ZenonT(30), <1>8, <2>6, <4>2
            <4> QED BY <2>4, <4>3 DEF Ids
        <3> QED BY <3>1, <3>2 DEF NodesAdded
    <2>8. Purges(c)'
        BY <1>8 DEF Purges
    <2>9. nodes \subseteq nodes'
        BY <1>8
    <2> QED BY ZenonT(30), <1>1, <2>1, <2>3, <2>4, <2>5, <2>7, <2>8, <2>9, QuietNodes
<1>9. CASE /\ nodes' = nodes \cup {q[k].id}
           /\ call' = [call EXCEPT ![c].k = @ + 1]
    <2>1. PICK n \in Nat : n = k + 1
        BY SMTT(20)
    <2>2. "node" \in Stages
        BY DEF Stages
    <2>3. call' = [call EXCEPT ![c] = [call[c] EXCEPT !.pc = "node", !.k = n, !.ok = call[c].ok]]
        <3>1. [call[c] EXCEPT !.k = n] = [call[c] EXCEPT !.pc = "node", !.k = n, !.ok = call[c].ok]
            BY <1>1, <1>2 DEF Call
        <3> QED BY ZenonT(30), <1>2, <1>7, <1>9, <2>1, <3>1
    <2>4. Moved(c) /\ call'[c].pc = "node" /\ call'[c].k = n
        BY ZenonT(30), <1>1, <1>2, <1>4, <2>2, <2>3, MoveFacts
    <2> QED BY ZenonT(30), <1>8, <1>9, <2>1, <2>4
<1>10. CASE /\ nodes' = nodes \cup {q[k].id} /\ ~(call[c].k < Len(call[c].next))
            /\ call' = [call EXCEPT ![c].pc = "append", ![c].k = 1]
    <2>1. 1 \in Nat /\ "append" \in Stages
        BY DEF Stages
    <2>2. call' = [call EXCEPT ![c] = [call[c] EXCEPT !.pc = "append", !.k = 1, !.ok = call[c].ok]]
        <3>1. [call[c] EXCEPT !.pc = "append", !.k = 1] = [call[c] EXCEPT !.pc = "append", !.k = 1, !.ok = call[c].ok]
            BY <1>2 DEF Call
        <3> QED BY ZenonT(30), <1>2, <1>10, <3>1
    <2>3. Moved(c) /\ call'[c].pc = "append" /\ call'[c].k = 1
        BY ZenonT(30), <1>1, <1>2, <1>4, <2>1, <2>2, MoveFacts
    <2>4. k = Len(q)
        <3>1. Len(q) \in Nat /\ k \in 1 .. Len(q) /\ ~(k < Len(q))
            BY <1>3, <1>4, <1>6, <1>7, <1>10, SMTT(20)
        <3> QED BY ONLY <3>1, SMTT(20)
    <2> QED BY ZenonT(30), <1>8, <1>10, <2>3, <2>4
<1> QED BY ZenonT(30), <1>5, <1>6, <1>7, <1>9, <1>10 DEF AddNode

=============================================================================
