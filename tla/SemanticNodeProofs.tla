------------------------- MODULE SemanticNodeProofs -------------------------
(***************************************************************************)
(* Proofs about SemanticRevision: the steps of a call that undo, append,   *)
(* close, rewrite or purge, and those of the recovery, preserve NodeInv; a *)
(* current fact therefore has its node.                                    *)
(***************************************************************************)
EXTENDS SemanticRevisionProofs

(* The default prover; leaves with arithmetic name SMT.                     *)
USE Zenon

(* The steps of a call. *)

LEMMA UndoNodes ==
    ASSUME ChainInv, ChainInv', NodeInv, NEW c \in Callers, Undo(c)
    PROVE  NodeInv'
<1>1. call[c].pc = "undo" /\ UNCHANGED <<rows, envelopes, cache, redo, purging, given>>
    BY DEF Undo, Up, ghosts
<1>2. call[c].pc \in Unwritten /\ Built(c) = Ids(Range(call[c].next))
    BY <1>1 DEF Unwritten, Built
<1>3. CASE nodes' = nodes \ Ids(Range(call[c].next)) /\ Go(c, "fail")
    <2>1. \A n \in nodes \ nodes' : n \in Built(c)
        BY ZenonT(30), <1>2, <1>3
    <2> QED BY ZenonT(30), <1>1, <1>2, <1>3, <2>1, BackNodes
<1>4. CASE nodes' = nodes /\ Go(c, "fail")
    BY ZenonT(30), <1>1, <1>2, <1>4, BackNodes
<1>5. CASE nodes' = nodes /\ Return(c)
    BY ZenonT(30), <1>1, <1>5, ReturnNodes
<1> QED BY ZenonT(30), <1>3, <1>4, <1>5 DEF Undo

LEMMA AppendRowsNodes ==
    ASSUME ChainInv, ChainInv', NodeInv, NEW c \in Callers, AppendRows(c)
    PROVE  NodeInv'
<1>1. call[c].pc = "append" /\ UNCHANGED <<nodes, envelopes, cache, redo, purging, given>>
    BY DEF AppendRows, Up, ghosts
<1>2. Typed /\ CallOK(c) /\ call \in [Callers -> Call]
    BY DEF ChainInv, Typed
<1>3. PICK q : q = call[c].next
    OBVIOUS
<1>4. call[c].pc \in Unwritten /\ Built(c) = Ids(Range(q)) /\ q \in Seq(Revision)
    BY ZenonT(30), <1>1, <1>2, <1>3 DEF Unwritten, Built, Call
<1>5. CASE rows' = rows /\ Return(c)
    BY ZenonT(30), <1>1, <1>5, ReturnNodes
<1>6. CASE rows' = rows /\ Go(c, "undo")
    BY ZenonT(30), <1>1, <1>4, <1>6, BackNodes
<1>7. CASE rows' = rows \cup Range(q) /\ Go(c, IF Closes(call[c].op) THEN "close" ELSE "cache")
    <2> DEFINE at == IF Closes(call[c].op) THEN "close" ELSE "cache"
    <2>1. at \in Stages /\ at \in {"close", "cache"} /\ Go(c, at)
        BY <1>7 DEF Stages
    <2> HIDE DEF at
    <2>2. Moved(c) /\ call'[c].pc = at
        BY ZenonT(30), <1>1, <1>2, <2>1, GoFacts
    <2>3. Kept /\ Len(envelopes') = Len(envelopes) /\ RowsKept
        BY ZenonT(30), <1>1, <1>2, <1>7, StatesKept DEF RowsKept
    <2>4. \A d \in Callers \ {c} : call'[d] = call[d]
        BY <2>2 DEF Moved
    <2>5. Built(c)' = {} /\ Built(c) \subseteq Ids(rows')
        <3>1. Built(c)' = {}
            BY ZenonT(30), <2>1, <2>2 DEF Built, Unwritten
        <3> QED BY ZenonT(30), <1>4, <1>7, <3>1 DEF Ids
    <2>6. \A n : Known(n)' => Known(n) \/ n \in Built(c)
        <3>1. PICK B : B = Built(c)
            OBVIOUS
        <3>2. \A n \in Read(c)' : Known(n) \/ n \in B
            <4>1. Read(c)' \subseteq Read(c) \cup B
                BY ZenonT(30), <1>3, <1>4, <2>2, <3>1 DEF Read, Moved, Ids
            <4> QED BY ZenonT(30), <4>1, KnownFacts
        <3>3. \A d \in Callers \ {c} : Read(d)' = Read(d)
            BY <2>4 DEF Read, Ids
        <3>4. \A d \in Callers : \A n \in Read(d)' : Known(n) \/ n \in B
            BY ZenonT(30), <3>2, <3>3, KnownFacts
        <3>5. /\ \A e \in 1 .. Len(envelopes') : \A n \in envelopes'[e].prior : Known(n)
              /\ \A m \in Memories : cache'[m] # None => Known(cache'[m].id)
              /\ \A r \in redo'.todo \cup redo'.held : Known(r.id)
            BY ZenonT(30), <1>1, KnownFacts
        <3>6. \A r \in rows' : Known(r.id) \/ r.id \in B
            BY ZenonT(30), <1>4, <1>7, <3>1, KnownFacts DEF Ids
        <3>7. \A n : Known(n)' => Known(n) \/ n \in B
            BY ZenonT(30), <3>4, <3>5, <3>6, NextKnown
        <3> QED BY ZenonT(30), <3>1, <3>7
    <2>7. Builds(c)
        BY ZenonT(30), <2>4, <2>5, <2>6 DEF Builds
    <2>8. NodesAdded(c)' /\ Purges(c)'
        BY ZenonT(30), <2>1, <2>2 DEF NodesAdded, Purges
    <2>9. ASSUME NEW r \in Range(q) PROVE Linked(r)' /\ r.until = None
        <3>1. NextOK(call[c])
            BY ZenonT(30), <1>1, <1>2 DEF CallOK, Shape, Writing
        <3>2. PICK i \in 1 .. Len(q) : q[i] = r
            BY ZenonT(30), <1>4, RangeFacts
        <3>3. r.until = None /\ r.op = call[c].op
            BY ZenonT(30), <1>3, <3>1, <3>2 DEF NextOK
        <3>4. call[c].op # "Retract" => r.id \in nodes'
            BY ZenonT(30), <1>1, <1>4 DEF NodeInv, NodesAdded, Ids
        <3>5. Linked(r)'
            BY ZenonT(30), <3>3, <3>4 DEF Linked, is_live
        <3> QED BY ZenonT(30), <3>3, <3>5
    <2>10. \A r \in rows' : r \in rows \/ (Linked(r)' /\ (r.until = None \/ Superseded(r)'))
        BY ZenonT(30), <1>7, <2>9
    <2>11. \A n \in nodes \ nodes' : Expendable(n) /\ \A d \in Callers \ {c} : n \notin Built(d)
        BY <1>1
    <2>12. \A e \in 1 .. Len(envelopes') : e \in 1 .. Len(envelopes)
        BY <2>3
    <2> QED BY ZenonT(30), <1>1, <2>3, <2>7, <2>8, <2>10, <2>11, <2>12, NodeStep
<1> QED BY ZenonT(30), <1>3, <1>5, <1>6, <1>7 DEF AppendRows

(* The predecessor a call closes or detaches is known.                      *)
LEMMA PriorKnown ==
    ASSUME ChainInv, NEW c \in Callers, call[c].pc \in Stored \ {"cache"}
    PROVE  /\ Prior(c) \in Copies /\ Known(Prior(c).id) /\ is_live(Prior(c)) /\ Superseded(Prior(c))
<1>1. Typed /\ CallOK(c) /\ call[c].prior \in Seq(Revision)
    BY DEF ChainInv, Typed, Call
<1>2. call[c].pc \in Writing \ {"finish"} /\ call[c].pc \in Stored
    BY DEF Writing, Stored
<1>3. call[c].prior # <<>> /\ call[c].k \in 1 .. Len(call[c].prior) /\ ChainsOK(call[c])
    BY ZenonT(30), <1>1, <1>2 DEF CallOK, Shape
<1>4. Superseded(Prior(c)) /\ is_live(Prior(c))
    BY ZenonT(30), <1>1, <1>2, <1>3 DEF CallOK, Prior, ChainsOK
<1>5. Prior(c) \in Copies
    BY ZenonT(30), <1>1, <1>3, CopiesFacts DEF Prior
<1>6. Prior(c) \in Range(call[c].prior)
    <2>1. PICK q : q = call[c].prior
        OBVIOUS
    <2>2. PICK k : k = call[c].k
        OBVIOUS
    <2>3. q[k] \in Range(q)
        <3>1. q \in Seq(Revision) /\ k \in 1 .. Len(q)
            BY ZenonT(30), <1>1, <1>3, <2>1, <2>2
        <3> QED BY <3>1, RangeFacts
    <2> QED BY ZenonT(30), <2>1, <2>2, <2>3 DEF Prior
<1>7. Prior(c).id \in Read(c)
    BY <1>6 DEF Read, Ids
<1> QED BY ZenonT(30), <1>4, <1>5, <1>7, KnownFacts

LEMMA DetachNodes ==
    ASSUME ChainInv, ChainInv', NodeInv, NEW c \in Callers, Detach(c)
    PROVE  NodeInv'
<1>1. /\ call[c].pc = "remove" /\ UNCHANGED <<rows, envelopes, cache, redo, purging, given>>
      /\ nodes \ nodes' \subseteq {Prior(c).id} /\ \E b \in BOOLEAN : NextPrior(c, "remove", "finish", b)
    BY DEF Detach, Up, ghosts
<1>2. PICK b \in BOOLEAN : NextPrior(c, "remove", "finish", b)
    BY <1>1
<1>3. "remove" \in Stages /\ "finish" \in Stages
    BY DEF Stages
<1>4. Moved(c) /\ call'[c].pc = (IF AtLast(c) THEN "finish" ELSE "remove")
    <2>1. Typed /\ given' = given
        BY <1>1 DEF ChainInv
    <2> QED BY ZenonT(30), <1>2, <1>3, <2>1, NextPriorFacts
<1>5. /\ call[c].pc \notin Unwritten /\ call'[c].pc \notin Unwritten \cup {"sweep"}
      /\ call'[c].pc # "unlink" /\ call[c].pc \in Stored \ {"cache"}
    BY ZenonT(30), <1>1, <1>4 DEF Unwritten, Stored
<1>6. PICK p : p = Prior(c)
    OBVIOUS
<1>7. p \in Copies /\ Known(p.id) /\ Superseded(p)
    BY ZenonT(30), <1>5, <1>6, PriorKnown
<1>8. Expendable(p.id)
    BY ZenonT(30), <1>7, OldExpendable
<1>9. \A n \in nodes \ nodes' : Expendable(n) /\ Known(n)
    BY ZenonT(30), <1>1, <1>6, <1>7, <1>8
<1>10. RowsKept /\ (\A r \in rows' : r \in rows) /\ \A m \in Memories : cache'[m] # None => Known(cache'[m].id)
    BY ZenonT(30), <1>1, KnownFacts DEF RowsKept
<1> QED BY ZenonT(30), <1>1, <1>4, <1>5, <1>9, <1>10, MovedNodes

LEMMA CloseNodes ==
    ASSUME ChainInv, ChainInv', NodeInv, NEW c \in Callers, Close(c)
    PROVE  NodeInv'
<1>1. call[c].pc = "close" /\ UNCHANGED <<nodes, envelopes, cache, redo, purging, given>>
    BY DEF Close, Up, ghosts
<1>2. call[c].pc \in Stored \ {"cache"} /\ call[c].pc \notin Unwritten
    BY <1>1 DEF Stored, Unwritten
<1>3. PICK p : p = Prior(c)
    OBVIOUS
<1>4. p \in Copies /\ is_live(p) /\ Superseded(p)
    BY ZenonT(30), <1>2, <1>3, PriorKnown
<1>5. ASSUME Moved(c), call'[c].pc \in {"rewrite", "cache", "audit", "close"},
             rows' = rows \/ rows' = {r \in rows : r.id # p.id}
      PROVE  NodeInv'
    <2>1. RowsKept
        <3>1. CASE rows' = rows
            BY <3>1 DEF RowsKept
        <3>2. CASE rows' = {r \in rows : r.id # p.id}
            BY ZenonT(30), <1>4, <3>2, DeleteKept
        <3> QED BY ZenonT(30), <1>5, <3>1, <3>2
    <2>2. \A r \in rows' : r \in rows
        BY <1>5
    <2>3. call'[c].pc \notin Unwritten \cup {"sweep"} /\ call'[c].pc # "unlink"
        BY <1>5 DEF Unwritten
    <2>4. \A m \in Memories : cache'[m] # None => Known(cache'[m].id)
        BY <1>1, KnownFacts
    <2>5. \A n \in nodes \ nodes' : Expendable(n) /\ Known(n)
        BY <1>1
    <2> QED BY ZenonT(30), <1>1, <1>2, <1>5, <2>1, <2>2, <2>3, <2>4, <2>5, MovedNodes
<1>6. {"rewrite", "cache", "audit", "close"} \subseteq Stages
    BY DEF Stages
<1>7. ASSUME NEW at \in {"rewrite", "cache", "audit"}, Go(c, at) PROVE Moved(c) /\ call'[c].pc = at
    BY ZenonT(30), <1>1, <1>6, <1>7, GoFacts DEF ChainInv
<1>8. ASSUME NextPrior(c, "close", "cache", FALSE) PROVE Moved(c) /\ call'[c].pc \in {"cache", "close"}
    <2>1. Moved(c) /\ call'[c].pc = (IF AtLast(c) THEN "cache" ELSE "close")
        BY ZenonT(30), <1>1, <1>6, <1>8, NextPriorFacts DEF ChainInv
    <2> QED BY <2>1
<1>9. CASE rows' = {r \in rows : r.id # Prior(c).id} /\ Go(c, "rewrite")
    BY ZenonT(30), <1>3, <1>5, <1>7, <1>9
<1>10. CASE rows' = rows /\ (Go(c, "cache") \/ Go(c, "audit"))
    BY ZenonT(30), <1>5, <1>7, <1>10
<1>11. CASE rows' = rows /\ NextPrior(c, "close", "cache", FALSE)
    BY ZenonT(30), <1>5, <1>8, <1>11
<1> QED BY ZenonT(30), <1>9, <1>10, <1>11 DEF Close

LEMMA RewriteNodes ==
    ASSUME ChainInv, ChainInv', NodeInv, NEW c \in Callers, Rewrite(c)
    PROVE  NodeInv'
<1>1. call[c].pc = "rewrite" /\ UNCHANGED <<nodes, envelopes, redo, purging, given>>
    BY DEF Rewrite, Up
<1>2. call[c].pc \in Stored \ {"cache"} /\ call[c].pc \notin Unwritten /\ call[c].pc \in {"close", "rewrite", "audit"}
    BY <1>1 DEF Stored, Unwritten
<1>3. PICK p : p = Prior(c)
    OBVIOUS
<1>4. p \in Copies /\ Known(p.id) /\ Superseded(p)
    BY ZenonT(30), <1>2, <1>3, PriorKnown
<1>5. PICK t : t = call[c].next[1].from
    OBVIOUS
<1>6. PICK h : h = Closed(p, t)
    OBVIOUS
<1>7. SameFact(h, p)
    <2>1. p \in Revision /\ t \in Times /\ given \in Nat
        BY ZenonT(30), <1>2, <1>3, <1>5, PriorFacts DEF ChainInv, Typed
    <2> QED BY ZenonT(30), <1>6, <2>1, ClosedFacts
<1>8. {"cache", "audit", "close"} \subseteq Stages
    BY DEF Stages
<1>9. \A n \in nodes \ nodes' : Expendable(n) /\ Known(n)
    BY <1>1
<1>10. ASSUME rows' = rows, cache' = cache, NextPrior(c, "close", "cache", FALSE) PROVE NodeInv'
    <2>1. Moved(c) /\ call'[c].pc = (IF AtLast(c) THEN "cache" ELSE "close")
        BY ZenonT(30), <1>1, <1>8, <1>10, NextPriorFacts DEF ChainInv
    <2>2. call'[c].pc \notin Unwritten \cup {"sweep"} /\ call'[c].pc # "unlink"
        BY <2>1 DEF Unwritten
    <2>3. RowsKept /\ (\A r \in rows' : r \in rows) /\ \A m \in Memories : cache'[m] # None => Known(cache'[m].id)
        BY <1>10, KnownFacts DEF RowsKept
    <2> QED BY ZenonT(30), <1>1, <1>2, <1>9, <2>1, <2>2, <2>3, MovedNodes
<1>11. ASSUME NEW at \in {"cache", "audit"}, Go(c, at), rows' = rows \cup {h}, cache' = Evicted(p.logical)
       PROVE  NodeInv'
    <2>1. Moved(c) /\ call'[c].pc = at
        BY ZenonT(30), <1>1, <1>8, <1>11, GoFacts DEF ChainInv
    <2>2. call'[c].pc \notin Unwritten \cup {"sweep"} /\ call'[c].pc # "unlink"
        BY <2>1 DEF Unwritten
    <2>3. RowsKept
        BY <1>11 DEF RowsKept
    <2>4. \A m \in Memories : cache'[m] # None => Known(cache'[m].id)
        BY ZenonT(30), <1>11, EvictedKnown DEF ChainInv
    <2>5. Superseded(h)'
        <3>1. h.logical = p.logical /\ h.version = p.version
            BY <1>7 DEF SameFact
        <3> QED BY ZenonT(30), <1>1, <1>4, <1>11, <3>1 DEF Superseded
    <2>6. Known(h.id) /\ Linked(h)'
        BY ZenonT(30), <1>4, <1>7, <2>5, OldLinked DEF SameFact
    <2>7. \A r \in rows' : \/ r \in rows
                           \/ Known(r.id) /\ Linked(r)' /\ (r.until = None \/ Superseded(r)')
        BY ZenonT(30), <1>11, <2>5, <2>6
    <2> QED BY ZenonT(30), <1>1, <1>2, <1>9, <2>1, <2>2, <2>3, <2>4, <2>7, MovedNodes
<1> QED BY ZenonT(30), <1>3, <1>5, <1>6, <1>10, <1>11 DEF Rewrite

LEMMA SweepNodes ==
    ASSUME ChainInv, ChainInv', NodeInv, NEW c \in Callers, Sweep(c)
    PROVE  NodeInv'
<1>1. call[c].pc = "sweep" /\ UNCHANGED <<nodes, envelopes, redo, purging, given>>
    BY DEF Sweep, Up, ghosts
<1>2. PICK m : m = call[c].on[1]
    OBVIOUS
<1>3. m \in purging
    BY ZenonT(30), <1>1, <1>2 DEF ChainInv, CallOK
<1>4. CASE rows' = rows /\ cache' = cache /\ Return(c)
    BY ZenonT(30), <1>1, <1>4, ReturnNodes
<1>5. CASE rows' = rows \ Of(m) /\ cache' = Evicted(m) /\ Go(c, "unlink")
    <2>1. "unlink" \in Stages
        BY DEF Stages
    <2>2. Moved(c) /\ call'[c].pc = "unlink"
        BY ZenonT(30), <1>1, <1>5, <2>1, GoFacts DEF ChainInv
    <2>3. call[c].pc \notin Unwritten /\ call'[c].pc \notin Unwritten \cup {"sweep"}
        BY <1>1, <2>2 DEF Unwritten
    <2>4. RowsKept /\ \A r \in rows' : r \in rows
        BY <1>3, <1>5 DEF RowsKept, Of
    <2>5. \A k \in Memories : cache'[k] # None => Known(cache'[k].id)
        BY ZenonT(30), <1>5, EvictedKnown DEF ChainInv
    <2>6. \A n \in nodes \ nodes' : Expendable(n) /\ Known(n)
        BY <1>1
    <2> QED BY ZenonT(30), <1>1, <2>2, <2>3, <2>4, <2>5, <2>6, MovedNodes
<1> QED BY ZenonT(30), <1>2, <1>4, <1>5 DEF Sweep

(* The nodes a purge takes are of the chain it purges.                      *)
LEMMA PurgedExpendable ==
    ASSUME ChainInv, NEW e \in 1 .. Len(envelopes), envelopes[e].kind = "purge", NEW n \in envelopes[e].prior
    PROVE  Expendable(n) /\ Known(n)
<1>1. EnvelopeOK(e) /\ NamesOK(e)
    BY DEF ChainInv, EnvelopeOK
<1>2. /\ envelopes[e].on[1] \in purging
      /\ \A r \in Copies : r.id \in envelopes[e].prior => r.logical = envelopes[e].on[1]
    BY <1>1 DEF EnvelopeOK, NamesOK
<1>3. \A r \in rows : r.id = n => r.logical \in purging
    BY ZenonT(30), <1>2, CopiesFacts DEF ChainInv
<1> QED BY ZenonT(30), <1>3, KnownFacts DEF Expendable

LEMMA UnlinkNodes ==
    ASSUME ChainInv, ChainInv', NodeInv, NEW c \in Callers, Unlink(c)
    PROVE  NodeInv'
<1>1. /\ call[c].pc = "unlink" /\ UNCHANGED <<rows, envelopes, cache, redo, purging, given>>
      /\ nodes \ nodes' \subseteq envelopes[call[c].env].prior
      /\ Go(c, "finish") \/ call' = [call EXCEPT ![c].pc = "finish", ![c].ok = FALSE]
    BY ZenonT(30) DEF Unlink, Up, ghosts
<1>2. Typed /\ call \in [Callers -> Call]
    BY DEF ChainInv, Typed
<1>3. Moved(c) /\ call'[c].pc = "finish"
    <2>1. "finish" \in Stages /\ FALSE \in BOOLEAN
        BY DEF Stages
    <2>2. CASE Go(c, "finish")
        BY ZenonT(30), <1>1, <1>2, <2>1, <2>2, GoFacts
    <2>3. CASE call' = [call EXCEPT ![c].pc = "finish", ![c].ok = FALSE]
        <3>1. call[c].k \in Nat
            BY <1>2 DEF Call
        <3>2. [call[c] EXCEPT !.pc = "finish", !.ok = FALSE]
                  = [call[c] EXCEPT !.pc = "finish", !.k = call[c].k, !.ok = FALSE]
            BY <1>2 DEF Call
        <3>3. call' = [call EXCEPT ![c] = [call[c] EXCEPT !.pc = "finish", !.k = call[c].k, !.ok = FALSE]]
            BY ZenonT(30), <1>2, <2>3, <3>2
        <3> QED BY ZenonT(30), <1>1, <1>2, <2>1, <3>1, <3>3, MoveFacts
    <2> QED BY ZenonT(30), <1>1, <2>2, <2>3
<1>4. /\ call[c].pc \notin Unwritten /\ call'[c].pc \notin Unwritten \cup {"sweep"} /\ call'[c].pc # "unlink"
    BY <1>1, <1>3 DEF Unwritten
<1>5. PICK e : e = call[c].env
    OBVIOUS
<1>6. e \in 1 .. Len(envelopes) /\ envelopes[e].kind = "purge"
    BY ZenonT(30), <1>1, <1>5 DEF NodeInv, Purges
<1>7. \A n \in nodes \ nodes' : Expendable(n) /\ Known(n)
    BY ZenonT(30), <1>1, <1>5, <1>6, PurgedExpendable
<1>8. RowsKept /\ (\A r \in rows' : r \in rows) /\ \A m \in Memories : cache'[m] # None => Known(cache'[m].id)
    BY <1>1, KnownFacts DEF RowsKept
<1> QED BY ZenonT(30), <1>1, <1>3, <1>4, <1>7, <1>8, MovedNodes

LEMMA HistoryNodes ==
    ASSUME ChainInv, ChainInv', NodeInv, NEW c \in Callers, History(c)
    PROVE  NodeInv'
<1>1. call[c].pc = "history" /\ UNCHANGED <<rows, nodes, cache, redo, given>>
    BY DEF History, Up
<1>2. Typed /\ call \in [Callers -> Call]
    BY DEF ChainInv, Typed
<1>3. CASE envelopes' = envelopes /\ purging' = purging /\ Return(c)
    BY ZenonT(30), <1>1, <1>3, ReturnNodes
<1>4. PICK m : m = call[c].on[1]
    OBVIOUS
<1>5. PICK w : w = Envelope("purge", <<m>>, Ids(Of(m)), <<>>)
    OBVIOUS
<1>6. CASE /\ envelopes' = Append(envelopes, w) /\ purging' = purging \cup {m}
           /\ call' = [call EXCEPT ![c].pc = "sweep", ![c].env = Len(envelopes) + 1]
    <2>1. PICK e : e = Len(envelopes) + 1
        OBVIOUS
    <2>2. /\ Kept /\ envelopes'[e] = w /\ e \in 1 .. Len(envelopes')
          /\ \A f \in 1 .. Len(envelopes') : f \in 1 .. Len(envelopes) \/ f = e
        BY ZenonT(30), <1>2, <1>6, <2>1, AppendKept
    <2>3. w.kind = "purge" /\ w.prior = Ids(Of(m)) /\ w.next = <<>>
        BY <1>5 DEF Envelope
    <2>4. PICK x \in Call : x = call[c]
        BY <1>2
    <2>5. PICK y : y = [x EXCEPT !.pc = "sweep", !.env = e]
        OBVIOUS
    <2>6. y.pc = "sweep" /\ y.prior = x.prior /\ y.next = x.next /\ y.env = e
        BY ONLY <2>5, x \in Call, SMTT(20) DEF Call
    <2>7. call' = [call EXCEPT ![c] = y]
        BY ZenonT(30), <1>2, <1>6, <2>1, <2>4, <2>5
    <2>8. call'[c] = y /\ \A d \in Callers \ {c} : call'[d] = call[d]
        BY ZenonT(30), <1>2, <2>7
    <2>9. Built(c) = {} /\ Built(c)' = {}
        BY ZenonT(30), <1>1, <2>6, <2>8 DEF Built, Unwritten
    <2>10. \A n : Known(n)' => Known(n)
        <3>1. PICK B : B = {}
            OBVIOUS
        <3>2. \A n \in Read(c)' : Known(n)
            BY ZenonT(30), <1>1, <2>4, <2>6, <2>8, ReadMoved DEF Unwritten
        <3>3. \A d \in Callers \ {c} : Read(d)' = Read(d)
            BY <2>8 DEF Read, Ids
        <3>4. \A d \in Callers : \A n \in Read(d)' : Known(n)
            BY ZenonT(30), <3>2, <3>3, KnownFacts
        <3>5. \A n \in w.prior : Known(n)
            BY ZenonT(30), <2>3, KnownFacts DEF Ids, Of
        <3>6. \A f \in 1 .. Len(envelopes') : \A n \in envelopes'[f].prior : Known(n)
            BY ZenonT(30), <2>2, <3>5, KnownFacts DEF Kept
        <3>7. /\ \A r \in rows' : Known(r.id)
              /\ \A k \in Memories : cache'[k] # None => Known(cache'[k].id)
              /\ \A r \in redo'.todo \cup redo'.held : Known(r.id)
            BY ZenonT(30), <1>1, KnownFacts
        <3>8. \A n : Known(n)' => Known(n) \/ n \in B
            BY ZenonT(30), <3>4, <3>6, <3>7, NextKnown
        <3> QED BY ZenonT(30), <3>1, <3>8
    <2>11. Builds(c)
        <3>1. Built(c)' = Built(c)
            BY <2>9
        <3> QED BY ZenonT(30), <2>8, <2>10, <3>1 DEF Builds
    <2>12. NodesAdded(c)' /\ Purges(c)'
        <3>1. call'[c].pc = "sweep" /\ call'[c].env = e
            BY ZenonT(30), <2>6, <2>8
        <3>2. NodesAdded(c)'
            BY <3>1 DEF NodesAdded
        <3>3. Purges(c)'
            BY ZenonT(30), <2>2, <2>3, <3>1 DEF Purges
        <3> QED BY <3>2, <3>3
    <2>13. StoredTogether(e)' /\ MergeIsWhole(e)'
        <3>1. Range(<<>>) = {}
            BY SMTT(20) DEF Range
        <3>2. StoredTogether(e)'
            BY ZenonT(30), <2>2, <2>3, <3>1 DEF StoredTogether
        <3>3. MergeIsWhole(e)'
            BY <2>2, <2>3 DEF MergeIsWhole
        <3> QED BY <3>2, <3>3
    <2>14. \A f \in 1 .. Len(envelopes') :
              f \in 1 .. Len(envelopes) \/ (StoredTogether(f)' /\ MergeIsWhole(f)')
        BY ZenonT(30), <2>2, <2>13
    <2>15. RowsKept /\ \A r \in rows' : r \in rows
        BY <1>1 DEF RowsKept
    <2>16. \A n \in nodes \ nodes' : Expendable(n) /\ \A d \in Callers \ {c} : n \notin Built(d)
        BY <1>1
    <2> QED BY ZenonT(30), <1>1, <2>2, <2>11, <2>12, <2>14, <2>15, <2>16, NodeStep
<1> QED BY ZenonT(30), <1>3, <1>4, <1>5, <1>6 DEF History

(* The ids of a sequence of revisions                                       *)
LEMMA IdSeqFacts ==
    ASSUME NEW S, NEW q \in Seq(S)
    PROVE  /\ Range(IdSeq(q)) = Ids(Range(q))
           /\ \A i \in 1 .. Len(q) : IdSeq(q)[i] = q[i].id
<1>1. DOMAIN IdSeq(q) = 1 .. Len(q) /\ \A i \in 1 .. Len(q) : IdSeq(q)[i] = q[i].id
    BY DEF IdSeq
<1>2. \A n : n \in Range(IdSeq(q)) <=> \E i \in 1 .. Len(q) : IdSeq(q)[i] = n
    BY <1>1 DEF Range
<1>3. \A r : r \in Range(q) <=> \E i \in 1 .. Len(q) : q[i] = r
    BY RangeFacts
<1>4. \A n : n \in Ids(Range(q)) <=> \E i \in 1 .. Len(q) : q[i].id = n
    BY <1>3 DEF Ids
<1>5. \A n : n \in Range(IdSeq(q)) <=> n \in Ids(Range(q))
    BY ZenonT(30), <1>1, <1>2, <1>4
<1> QED BY <1>1, <1>5

LEMMA IntendNodes ==
    ASSUME ChainInv, ChainInv', NodeInv, NEW c \in Callers, Intend(c)
    PROVE  NodeInv'
<1>1. call[c].pc = "intend" /\ UNCHANGED <<rows, nodes, cache, redo, purging>>
    BY ZenonT(30) DEF Intend, Up, ghosts
<1>2. Typed /\ CallOK(c) /\ call \in [Callers -> Call] /\ given \in Nat
    BY DEF ChainInv, Typed
<1>3. CASE given' = given /\ envelopes' = envelopes /\ Return(c)
    BY ZenonT(30), <1>1, <1>3, ReturnNodes
<1>4. ASSUME given' = given + Len(call[c].on),
             NEW next \in Revisions(c),
             call' = [call EXCEPT ![c].next = next, ![c].env = Len(envelopes) + 1,
                                  ![c].pc = IF call[c].op = "Retract" THEN "append" ELSE "node"],
             envelopes' = Append(envelopes,
                 Envelope(Kind(call[c].op), call[c].on, Ids(Range(call[c].prior)), IdSeq(next)))
      PROVE  NodeInv'
    <2>1. PICK w : w = Envelope(Kind(call[c].op), call[c].on, Ids(Range(call[c].prior)), IdSeq(next))
        OBVIOUS
    <2>2. w.prior = Ids(Range(call[c].prior)) /\ w.next = IdSeq(next)
        BY <2>1 DEF Envelope
    <2>3. PICK e : e = Len(envelopes) + 1
        OBVIOUS
    <2>4. /\ Kept /\ envelopes'[e] = w
          /\ \A f \in 1 .. Len(envelopes') : f \in 1 .. Len(envelopes) \/ f = e
        <3>1. envelopes' = Append(envelopes, w) /\ purging \subseteq purging'
            BY ZenonT(30), <1>1, <1>4, <2>1
        <3> QED BY ZenonT(30), <1>2, <2>3, <3>1, AppendKept
    <2>5. PICK S : next \in Seq(S)
        BY ZenonT(30), <1>1, <1>4, NewRevisions
    <2>6. Len(next) \in {1, 2} /\ \A i \in 1 .. Len(next) : next[i].id = given + i
        BY ZenonT(30), <1>1, <1>4, NewRevisions
    <2>7. /\ Range(IdSeq(next)) = Ids(Range(next))
          /\ \A i \in 1 .. Len(next) : IdSeq(next)[i] = next[i].id
        BY ZenonT(30), <2>5, IdSeqFacts
    <2>8. \A n \in Ids(Range(next)) : n \notin 1 .. given
        <3>1. \A r \in Range(next) : \E i \in 1 .. Len(next) : next[i] = r
            BY ZenonT(30), <2>5, RangeFacts
        <3>2. \A i \in 1 .. Len(next) : given + i \notin 1 .. given
            <4>1. PICK k : k = Len(next)
                OBVIOUS
            <4>2. PICK g : g = given
                OBVIOUS
            <4>3. g \in Nat /\ k \in {1, 2}
                BY ZenonT(30), <1>2, <2>6, <4>1, <4>2
            <4>4. \A i \in 1 .. k : g + i \notin 1 .. g
                BY ONLY <4>3, SMTT(20)
            <4> QED BY ZenonT(30), <4>1, <4>2, <4>4
        <3>3. ASSUME NEW r \in Range(next) PROVE r.id \notin 1 .. given
            <4>1. PICK i \in 1 .. Len(next) : next[i] = r
                BY <3>1
            <4>2. r.id = given + i
                BY ZenonT(30), <2>6, <4>1
            <4> QED BY ZenonT(30), <3>2, <4>2
        <3> QED BY <3>3 DEF Ids
    <2>9. w.next[1] \notin 1 .. given
        <3>1. 1 \in 1 .. Len(next)
            BY SMTT(20), <2>6
        <3>2. w.next[1] \in Ids(Range(next))
            <4>1. next[1] \in Range(next)
                BY ZenonT(30), <2>5, <3>1, RangeFacts
            <4> QED BY <2>2, <2>7, <3>1, <4>1 DEF Ids
        <3> QED BY ZenonT(30), <2>8, <3>2
    <2>10. PICK at : at = IF call[c].op = "Retract" THEN "append" ELSE "node"
        OBVIOUS
    <2>11. at \in {"append", "node"} /\ at \in Unwritten /\ (at = "append" => call[c].op = "Retract")
        BY <2>10 DEF Unwritten
    <2>12. PICK x \in Call : x = call[c]
        BY <1>2
    <2>13. PICK y : y = [x EXCEPT !.next = next, !.env = e, !.pc = at]
        OBVIOUS
    <2>14. y.pc = at /\ y.prior = x.prior /\ y.next = next /\ y.op = x.op /\ y.k = x.k
        BY ONLY <2>13, x \in Call, SMTT(20) DEF Call
    <2>15. call' = [call EXCEPT ![c] = y]
        BY ZenonT(30), <1>2, <1>4, <2>3, <2>10, <2>12, <2>13
    <2>16. call'[c] = y /\ \A d \in Callers \ {c} : call'[d] = call[d]
        BY ZenonT(30), <1>2, <2>15
    <2>17. Built(c)' = Ids(Range(next))
        BY ZenonT(30), <2>11, <2>14, <2>16 DEF Built, Ids
    <2>18. \A n : Known(n)' => Known(n)
        <3>1. PICK B : B = {}
            OBVIOUS
        <3>2. Ids(Range(x.prior)) \subseteq Read(c) /\ Read(c)' \subseteq Ids(Range(x.prior))
            BY ZenonT(30), <2>11, <2>12, <2>14, <2>16 DEF Read, Ids
        <3>3. \A d \in Callers \ {c} : Read(d)' = Read(d)
            BY ZenonT(30), <2>16 DEF Read, Ids
        <3>4. \A d \in Callers : \A n \in Read(d)' : Known(n)
            BY ZenonT(30), <3>2, <3>3, KnownFacts
        <3>5. \A n \in w.prior : Known(n)
            BY ZenonT(30), <2>2, <2>12, <3>2, KnownFacts
        <3>6. \A f \in 1 .. Len(envelopes') : \A n \in envelopes'[f].prior : Known(n)
            BY ZenonT(30), <2>4, <3>5, KnownFacts DEF Kept
        <3>7. /\ \A r \in rows' : Known(r.id)
              /\ \A k \in Memories : cache'[k] # None => Known(cache'[k].id)
              /\ \A r \in redo'.todo \cup redo'.held : Known(r.id)
            BY ZenonT(30), <1>1, KnownFacts
        <3>8. \A n : Known(n)' => Known(n) \/ n \in B
            BY ZenonT(30), <3>4, <3>6, <3>7, NextKnown
        <3> QED BY ZenonT(30), <3>1, <3>8
    <2>19. Builds(c)
        <3>1. Built(c)' \cap (1 .. given) = {}
            BY ZenonT(30), <2>8, <2>17
        <3> QED BY ZenonT(30), <2>16, <2>18, <3>1 DEF Builds
    <2>20. NodesAdded(c)' /\ Purges(c)'
        <3>1. call[c].k = 1
            BY ZenonT(30), <1>1, <1>2 DEF CallOK, Shape
        <3>2. call'[c].pc = at /\ call'[c].k = 1 /\ call'[c].op = call[c].op
            BY ZenonT(30), <2>12, <2>14, <2>16, <3>1
        <3>3. \A i \in 1 .. 1 - 1 : FALSE
            BY SMTT(20)
        <3>4. NodesAdded(c)'
            BY ZenonT(30), <2>11, <3>2, <3>3 DEF NodesAdded
        <3>5. Purges(c)'
            BY ZenonT(30), <2>11, <3>2 DEF Purges
        <3> QED BY ZenonT(30), <3>4, <3>5
    <2>21. StoredTogether(e)'
        <3>1. Range(envelopes'[e].next) = Ids(Range(next))
            BY ZenonT(30), <2>2, <2>4, <2>7
        <3>2. \A d \in Callers \ {c} : Built(d)' \subseteq 1 .. given
            <4>1. \A d \in Callers \ {c} : Built(d)' = Built(d)
                BY ZenonT(30), <2>16, OthersBuilt
            <4>2. \A d \in Callers : Built(d) \subseteq 1 .. given
                BY ZenonT(30), <1>2, KnownIsGiven
            <4> QED BY ZenonT(30), <4>1, <4>2
        <3>3. \A d \in Callers : Ids(Range(next)) \cap Built(d)' # {} => Ids(Range(next)) \subseteq Built(d)'
            BY ZenonT(30), <2>8, <2>17, <3>2
        <3> QED BY ZenonT(30), <3>1, <3>3 DEF StoredTogether
    <2>22. MergeIsWhole(e)'
        <3>1. PICK n : n = w.next[1]
            OBVIOUS
        <3>2. ~Known(n)
            BY ZenonT(30), <1>2, <2>9, <3>1, KnownIsGiven
        <3>3. ~Known(n)'
            BY ZenonT(30), <2>18, <3>2
        <3>4. envelopes'[e].next[1] = n
            BY ZenonT(30), <2>4, <3>1
        <3>5. Known(envelopes[e].next[1])' => Known(n)'
            BY ZenonT(30), <3>4 DEF Known
        <3> QED BY ZenonT(30), <3>3, <3>5 DEF MergeIsWhole
    <2>23. \A f \in 1 .. Len(envelopes') :
              f \in 1 .. Len(envelopes) \/ (StoredTogether(f)' /\ MergeIsWhole(f)')
        BY ZenonT(30), <2>4, <2>21, <2>22
    <2>24. RowsKept /\ \A r \in rows' : r \in rows
        BY <1>1 DEF RowsKept
    <2>25. \A n \in nodes \ nodes' : Expendable(n) /\ \A d \in Callers \ {c} : n \notin Built(d)
        BY <1>1
    <2> QED BY ZenonT(30), <1>1, <2>4, <2>19, <2>20, <2>23, <2>24, <2>25, NodeStep
<1> QED BY ZenonT(30), <1>3, <1>4 DEF Intend

-----------------------------------------------------------------------------
(* The recovery of an open. *)

(* The ids an envelope names are those of its rows when all are stored.     *)
LEMMA WholeFacts ==
    ASSUME NEW e
    PROVE  /\ Whole(e) => \A n \in Range(envelopes[e].next) : \E s \in rows : s.id = n
           /\ (\A n \in Range(envelopes[e].next) : \E s \in rows : s.id = n) => Whole(e)
<1>1. \A n \in Ids(Named(e)) : n \in Range(envelopes[e].next) /\ \E s \in rows : s.id = n
    BY DEF Ids, Named
<1>2. ASSUME NEW n \in Range(envelopes[e].next), \E s \in rows : s.id = n PROVE n \in Ids(Named(e))
    BY <1>2 DEF Ids, Named
<1> QED BY <1>1, <1>2 DEF Whole

(* The revisions of an envelope *)
LEMMA NextFacts ==
    ASSUME ChainInv, NEW e \in Pending, envelopes[e].kind # "purge"
    PROVE  /\ envelopes[e].kind # "merge" => Range(envelopes[e].next) = {envelopes[e].next[1]}
           /\ envelopes[e].kind = "merge" =>
                 Range(envelopes[e].next) = {envelopes[e].next[1], envelopes[e].next[2]}
<1>1. Typed /\ e \in 1 .. Len(envelopes)
    BY DEF ChainInv, Pending
<1>2. PICK q : q = envelopes[e].next
    OBVIOUS
<1>3. PICK T : q \in Seq(T)
    BY ZenonT(30), <1>1, <1>2, PendingFacts
<1>4. NamesOK(e)
    BY ZenonT(30), <1>1 DEF ChainInv, EnvelopeOK
<1>5. Len(q) = IF envelopes[e].kind = "merge" THEN 2 ELSE 1
    BY ZenonT(30), <1>2, <1>4 DEF NamesOK
<1>6. \A n : n \in Range(q) <=> \E i \in 1 .. Len(q) : q[i] = n
    BY ZenonT(30), <1>3, RangeFacts
<1>7. (\A i : i \in 1 .. 1 <=> i = 1) /\ (\A i : i \in 1 .. 2 <=> i = 1 \/ i = 2)
    BY SMTT(20)
<1>8. CASE envelopes[e].kind = "merge"
    <2>1. \A n : n \in Range(q) <=> n = q[1] \/ n = q[2]
        BY ZenonT(30), <1>5, <1>6, <1>7, <1>8
    <2> QED BY ZenonT(30), <1>2, <1>8, <2>1
<1>9. CASE envelopes[e].kind # "merge"
    <2>1. \A n : n \in Range(q) <=> n = q[1]
        BY ZenonT(30), <1>5, <1>6, <1>7, <1>9
    <2> QED BY ZenonT(30), <1>2, <1>9, <2>1
<1> QED BY ZenonT(30), <1>8, <1>9

(* A write that is not whole: the merge lost the revision that ended its    *)
(* chain to a purge.                                                        *)
LEMMA TornExpendable ==
    ASSUME ChainInv, NodeInv, NEW e \in Pending, envelopes[e].kind # "purge", ~Whole(e),
           NEW n \in Range(envelopes[e].next)
    PROVE  Expendable(n)
<1>1. SUFFICES ASSUME NEW r \in rows, r.id = n PROVE ~is_live(r) \/ MergedWithPurged(n)
    BY ZenonT(30) DEF Expendable
<1>2. e \in 1 .. Len(envelopes) /\ NamesOK(e) /\ r \in Copies
    BY ZenonT(30), CopiesFacts DEF ChainInv, EnvelopeOK, Pending
<1>3. PICK x : x = envelopes[e]
    OBVIOUS
<1>4. x.kind = "merge"
    <2>1. ASSUME x.kind # "merge" PROVE \A k \in Range(envelopes[e].next) : \E s \in rows : s.id = k
        BY ZenonT(30), <1>1, <1>3, <2>1, NextFacts
    <2> QED BY ZenonT(30), <2>1, WholeFacts
<1>5. Range(x.next) = {x.next[1], x.next[2]}
    BY ZenonT(30), <1>3, <1>4, NextFacts
<1>6. CASE n = x.next[2]
    <2>1. r.merged_into # None
        BY ZenonT(30), <1>1, <1>2, <1>3, <1>4, <1>6 DEF NamesOK
    <2> QED BY <2>1 DEF is_live
<1>7. CASE n = x.next[1]
    <2>1. Known(x.next[1])
        BY ZenonT(30), <1>1, <1>7, KnownFacts
    <2>2. x.next[2] \in Ids(rows) \/ x.on[2] \in purging
        BY ZenonT(30), <1>2, <1>3, <1>4, <2>1 DEF NodeInv, MergeIsWhole
    <2>3. x.next[2] \notin Ids(rows)
        <3>1. ASSUME x.next[2] \in Ids(rows) PROVE \A k \in Range(envelopes[e].next) : \E s \in rows : s.id = k
            BY ZenonT(30), <1>1, <1>3, <1>5, <1>7, <3>1 DEF Ids
        <3> QED BY ZenonT(30), <3>1, WholeFacts
    <2>4. x.on[2] \in Range(x.on)
        <3>1. Len(x.on) = 2
            BY ZenonT(30), <1>2, <1>3, <1>4 DEF NamesOK
        <3>2. x.on \in Seq(Memories)
            BY ZenonT(30), <1>3, PendingFacts DEF ChainInv, MutationEnvelope
        <3>3. 2 \in 1 .. 2
            BY SMTT(20)
        <3> QED BY ZenonT(30), <3>1, <3>2, <3>3, RangeFacts
    <2>5. Range(x.on) \cap purging # {}
        BY ZenonT(30), <2>2, <2>3, <2>4
    <2> QED BY ZenonT(30), <1>2, <1>3, <1>4, <2>5 DEF MergedWithPurged
<1> QED BY ZenonT(30), <1>3, <1>5, <1>6, <1>7

(* A create that is no longer the head                                      *)
LEMMA PassedExpendable ==
    ASSUME ChainInv, NodeInv, NEW e \in Pending, NEW n \in Ids(Named(e) \ Heads(e))
    PROVE  Expendable(n)
<1>1. SUFFICES ASSUME NEW r \in rows, r.id = n PROVE r.logical \in purging \/ ~Newest(r)
    BY DEF Expendable
<1>2. PICK u \in Named(e) \ Heads(e) : u.id = n
    BY DEF Ids
<1>3. u \in rows /\ HeadOf(Of(u.logical)) # u
    BY ZenonT(30), <1>2 DEF Named, Heads
<1>4. given \in Nat /\ rows \subseteq Revision /\ \A s \in rows : s \in Copies
    BY ZenonT(30), CopiesFacts DEF ChainInv, Typed
<1>5. PICK S : S = Of(u.logical)
    OBVIOUS
<1>6. S # {} /\ S \subseteq Revision /\ S \subseteq rows /\ u \in S /\ \A s \in S : s.logical = u.logical
    BY ZenonT(30), <1>3, <1>4, <1>5 DEF Of
<1>7. PICK h : h = HeadOf(S)
    OBVIOUS
<1>8. h \in S /\ ~semantic_revision_is_newer(u, h)
    BY ZenonT(30), <1>4, <1>6, <1>7, HeadFacts
<1>9. h \in rows /\ h.logical = u.logical /\ h # u
    BY ZenonT(30), <1>3, <1>5, <1>6, <1>7, <1>8
<1>10. \A s, t \in rows : s.id = t.id => SameFact(s, t)
    BY ZenonT(30), <1>4 DEF ChainInv, CopiesAgree
<1>11. SameFact(r, u)
    BY ZenonT(30), <1>1, <1>2, <1>3, <1>10
<1>12. CASE semantic_revision_is_newer(h, u)
    <2>1. semantic_revision_is_newer(h, r)
        BY ZenonT(30), <1>11, <1>12 DEF semantic_revision_is_newer, SameFact
    <2> QED BY ZenonT(30), <1>9, <1>11, <2>1 DEF Newest, SameFact
<1>13. CASE ~semantic_revision_is_newer(h, u)
    <2>1. h \in Revision /\ u \in Revision
        BY ZenonT(30), <1>3, <1>4, <1>9
    <2>2. h.version \in Nat /\ u.version \in Nat /\ h.id \in Nat /\ u.id \in Nat
        <3>1. h.version \in 1 .. given /\ u.version \in 1 .. given /\ h.id \in 1 .. given /\ u.id \in 1 .. given
            BY <2>1 DEF Revision
        <3> QED BY ONLY <1>4, <3>1, SMTT(20)
    <2>3. h.id = u.id
        BY ONLY <1>8, <1>13, <2>2, SMTT(20) DEF semantic_revision_is_newer
    <2>4. SameFact(h, u)
        BY ZenonT(30), <1>3, <1>9, <1>10, <2>3
    <2>5. h.until # u.until
        BY ONLY <1>9, <2>1, <2>4, SMTT(20) DEF Revision, SameFact
    <2>6. PICK v \in {h, u} : v.until # None
        BY <2>5
    <2>7. v \in rows /\ Superseded(v)
        BY ZenonT(30), <1>3, <1>9, <2>6 DEF NodeInv
    <2>8. SameFact(v, u)
        BY ZenonT(30), <2>4, <2>6 DEF SameFact
    <2>9. v.logical = r.logical /\ v.version = r.version
        BY ZenonT(30), <1>11, <2>8 DEF SameFact
    <2> QED BY ZenonT(30), <2>7, <2>9 DEF Superseded, Newest, semantic_revision_is_newer
<1> QED BY ZenonT(30), <1>12, <1>13

(* The predecessors of a durable edit                                       *)
LEMMA EditedExpendable ==
    ASSUME ChainInv, NEW e \in Pending, envelopes[e].kind # "purge", Whole(e), NEW n \in envelopes[e].prior
    PROVE  Expendable(n)
<1>1. SUFFICES ASSUME NEW r \in rows, r.id = n PROVE Superseded(r)
    BY ZenonT(30) DEF Expendable, Superseded, Newest, semantic_revision_is_newer
<1>2. /\ Typed /\ e \in 1 .. Len(envelopes) /\ given \in Nat /\ rows \subseteq Copies /\ rows \subseteq Revision
      /\ envelopes[e].next \in Seq(1 .. given)
    BY ZenonT(30), PendingFacts, CopiesFacts DEF ChainInv, Typed
<1>3. PICK next : next = envelopes[e].next
    OBVIOUS
<1>4. PICK i \in 1 .. Len(next) :
          \A s \in Copies : s.id = next[i] => s.logical = r.logical /\ s.version = r.version + 1
    <2>1. EnvelopeOK(e)
        BY <1>2 DEF ChainInv
    <2> QED BY ZenonT(30), <1>1, <1>2, <1>3, <2>1 DEF EnvelopeOK
<1>5. next[i] \in Range(next)
    <2>1. PICK T : next \in Seq(T)
        BY ZenonT(30), <1>2, <1>3
    <2> QED BY ZenonT(30), <2>1, RangeFacts
<1>6. PICK s \in rows : s.id = next[i]
    BY ZenonT(30), <1>3, <1>5, WholeFacts
<1>7. s.logical = r.logical /\ s.version = r.version + 1
    BY ZenonT(30), <1>2, <1>4, <1>6
<1>8. s.version > r.version
    <2>1. r.version \in 1 .. given
        BY <1>2 DEF Revision
    <2> QED BY ONLY <1>2, <1>7, <2>1, SMTT(20)
<1> QED BY ZenonT(30), <1>7, <1>8 DEF Superseded

LEMMA LeftoverExpendable ==
    ASSUME ChainInv, NodeInv, NEW e \in Pending, NEW n \in Leftover(e)
    PROVE  Expendable(n)
<1>1. e \in 1 .. Len(envelopes) /\ NamesOK(e)
    BY DEF ChainInv, EnvelopeOK, Pending
<1>2. CASE envelopes[e].kind = "purge"
    <2>1. Range(<<>>) = {}
        BY SMTT(20) DEF Range
    <2>2. Range(envelopes[e].next) = {}
        BY ZenonT(30), <1>1, <1>2, <2>1 DEF NamesOK
    <2>3. Whole(e)
        BY ZenonT(30), <2>2, WholeFacts
    <2>4. n \in envelopes[e].prior
        BY ZenonT(30), <1>2, <2>3 DEF Leftover
    <2> QED BY ZenonT(30), <1>1, <1>2, <2>4, PurgedExpendable
<1>3. CASE envelopes[e].kind # "purge" /\ ~Whole(e)
    <2>1. n \in Range(envelopes[e].next)
        BY <1>3 DEF Leftover
    <2> QED BY ZenonT(30), <1>3, <2>1, TornExpendable
<1>4. CASE envelopes[e].kind = "create" /\ Whole(e)
    <2>1. n \in Ids(Named(e) \ Heads(e))
        BY <1>4 DEF Leftover
    <2> QED BY ZenonT(30), <2>1, PassedExpendable
<1>5. CASE envelopes[e].kind \notin {"purge", "create"} /\ Whole(e)
    <2>1. n \in envelopes[e].prior
        BY <1>5 DEF Leftover
    <2> QED BY ZenonT(30), <1>5, <2>1, EditedExpendable
<1> QED BY ZenonT(30), <1>2, <1>3, <1>4, <1>5

(* A step of a recovery, or an end of all calls                             *)
LEMMA RecoveryNodes ==
    ASSUME ChainInv, ChainInv', NodeInv, \A c \in Callers : call'[c] = Idle, purging' = purging, RowsKept,
           \/ envelopes' = envelopes
           \/ \E e \in Nat, s \in {"applied", "failed"} : Set(e, s),
           \A m \in Memories : cache'[m] # None => Known(cache'[m].id),
           \A r \in redo'.todo : is_live(r) /\ Known(r.id), \A r \in redo'.held : Known(r.id),
           \A r \in rows' : \/ r \in rows
                            \/ Known(r.id) /\ Linked(r)' /\ (r.until = None \/ Superseded(r)'),
           \A n \in nodes \ nodes' : Expendable(n)
    PROVE  NodeInv'
<1>1. Kept /\ Len(envelopes') = Len(envelopes)
    BY StatesKept DEF ChainInv
<1>2. \A n : Known(n)' => Known(n)
    <2>1. PICK B : B = {}
        OBVIOUS
    <2>2. \A c \in Callers : \A n \in Read(c)' : Known(n)
        BY ReadIdle
    <2>3. \A e \in 1 .. Len(envelopes') : \A n \in envelopes'[e].prior : Known(n)
        BY ZenonT(30), <1>1, KnownFacts DEF Kept
    <2>4. /\ \A r \in rows' : Known(r.id)
          /\ \A r \in redo'.todo \cup redo'.held : Known(r.id)
        BY ZenonT(30), KnownFacts
    <2>5. \A n : Known(n)' => Known(n) \/ n \in B
        BY ZenonT(30), <2>2, <2>3, <2>4, NextKnown
    <2> QED BY ZenonT(30), <2>1, <2>5
<1>3. /\ \A r \in rows' : r \in rows \/ (Linked(r)' /\ (r.until = None \/ Superseded(r)'))
      /\ \A r \in redo'.todo : is_live(r)
    OBVIOUS
<1> QED BY ZenonT(30), <1>1, <1>2, <1>3, RestStep

(* What a recovery has to close is live and known.                          *)
LEMMA ToCloseLive ==
    ASSUME ChainInv, NEW e \in Pending, envelopes[e].kind # "purge", NEW d \in ToClose(e)
    PROVE  is_live(d) /\ Known(d.id)
<1>1. e \in 1 .. Len(envelopes) /\ NamesOK(e)
    BY DEF ChainInv, EnvelopeOK, Pending
<1>2. PICK t : t = (CHOOSE r \in rows : r.id = envelopes[e].next[1]).from
    OBVIOUS
<1>3. PICK r \in rows : r.id \in envelopes[e].prior /\ d = Closed(r, t)
    BY ZenonT(30), <1>2 DEF ToClose
<1>4. r \in Revision /\ r \in Copies
    BY ZenonT(30), CopiesFacts DEF ChainInv, Typed
<1>5. is_live(r)
    BY ZenonT(30), <1>1, <1>3, <1>4 DEF NamesOK
<1>6. \A u : /\ [r EXCEPT !.until = u].op = r.op /\ [r EXCEPT !.until = u].id = r.id
             /\ [r EXCEPT !.until = u].merged_into = r.merged_into
    BY ONLY <1>4, SMTT(20) DEF Revision
<1>7. d.op = r.op /\ d.id = r.id /\ d.merged_into = r.merged_into
    BY ZenonT(30), <1>3, <1>6 DEF Closed
<1> QED BY ZenonT(30), <1>5, <1>7, KnownFacts DEF is_live

LEMMA HeadsStored ==
    ASSUME Typed, NEW e
    PROVE  Heads(e) \subseteq rows
<1>1. ASSUME NEW r \in Named(e) PROVE HeadOf(Of(r.logical)) \in rows
    <2>1. PICK S : S = Of(r.logical)
        OBVIOUS
    <2>2. S # {} /\ S \subseteq Revision /\ S \subseteq rows /\ given \in Nat
        BY <2>1 DEF Of, Named, Typed
    <2>3. HeadOf(S) \in S
        BY ZenonT(30), <2>2, HeadFacts
    <2> QED BY ZenonT(30), <2>1, <2>2, <2>3
<1> QED BY <1>1 DEF Heads

LEMMA ReconcileNodes ==
    ASSUME ChainInv, ChainInv', NodeInv, NEW e \in Pending, Reconcile(e)
    PROVE  NodeInv'
<1>1. phase = "opening" /\ UNCHANGED <<call, given, purging>>
    BY ZenonT(30) DEF Reconcile, ghosts
<1>2. /\ Typed /\ e \in 1 .. Len(envelopes) /\ e \in Nat /\ EnvelopeOK(e) /\ \A c \in Callers : call'[c] = Idle
    BY ZenonT(30), <1>1, PendingFacts DEF ChainInv, Typed
<1>3. \A n \in Leftover(e) : Expendable(n)
    BY LeftoverExpendable
<1>4. \A m \in Memories : cache[m] # None => Known(cache[m].id)
    BY KnownFacts
<1>5. ASSUME UNCHANGED <<rows, envelopes>>, Whole(e), envelopes[e].kind # "purge",
             NEW S, S \subseteq rows, cache' = CachedAll(cache, S), Redo(e, ToClose(e), "applied"),
             \A n \in nodes \ nodes' : n \in Leftover(e)
      PROVE  NodeInv'
    <2>1. \A m \in Memories : cache'[m] # None => Known(cache'[m].id)
        <3>1. S \subseteq Revision /\ \A r \in S : Known(r.id)
            BY ZenonT(30), <1>2, <1>5, KnownFacts DEF Typed
        <3>2. cache \in [Memories -> Revision \cup {None}]
            BY <1>2 DEF Typed
        <3> QED BY ZenonT(30), <1>2, <1>4, <1>5, <3>1, <3>2, CachedKnown
    <2>2. redo'.todo = ToClose(e) /\ redo'.held = {}
        BY ZenonT(30), <1>5, RedoFacts
    <2>3. \A r \in redo'.todo : is_live(r) /\ Known(r.id)
        BY ZenonT(30), <1>5, <2>2, ToCloseLive
    <2>4. \A r \in redo'.held : Known(r.id)
        BY <2>2
    <2>5. RowsKept /\ \A r \in rows' : r \in rows
        BY <1>5 DEF RowsKept
    <2>6. \A n \in nodes \ nodes' : Expendable(n)
        BY ZenonT(30), <1>3, <1>5
    <2> QED BY ZenonT(30), <1>1, <1>2, <1>5, <2>1, <2>3, <2>4, <2>5, <2>6, RecoveryNodes
<1>6. ASSUME rows' = rows \/ \E m \in purging : rows' = rows \ Of(m),
             cache' = cache \/ \E m : cache' = Evicted(m),
             redo' = redo \/ \E outcome : Redo(e, {}, outcome),
             envelopes' = envelopes \/ Set(e, "failed"),
             \A n \in nodes \ nodes' : n \in Leftover(e)
      PROVE  NodeInv'
    <2>1. RowsKept /\ \A r \in rows' : r \in rows
        BY <1>6 DEF RowsKept, Of
    <2>2. \A m \in Memories : cache'[m] # None => Known(cache'[m].id)
        BY ZenonT(30), <1>2, <1>4, <1>6, EvictedKnown
    <2>3. (\A r \in redo'.todo : is_live(r) /\ Known(r.id)) /\ \A r \in redo'.held : Known(r.id)
        <3>1. CASE redo' = redo
            BY ZenonT(30), <3>1, KnownFacts DEF NodeInv
        <3>2. CASE \E outcome : Redo(e, {}, outcome)
            <4>1. PICK none : none = {}
                OBVIOUS
            <4>2. PICK outcome : Redo(e, none, outcome)
                BY ZenonT(30), <3>2, <4>1
            <4>3. redo'.todo = none /\ redo'.held = {}
                BY ZenonT(30), <4>2, RedoFacts
            <4> QED BY ZenonT(30), <4>1, <4>3
        <3> QED BY ZenonT(30), <1>6, <3>1, <3>2
    <2>4. envelopes' = envelopes \/ \E f \in Nat, s \in {"applied", "failed"} : Set(f, s)
        BY ZenonT(30), <1>2, <1>6
    <2>5. \A n \in nodes \ nodes' : Expendable(n)
        BY ZenonT(30), <1>3, <1>6
    <2> QED BY ZenonT(30), <1>1, <1>2, <2>1, <2>2, <2>3, <2>4, <2>5, RecoveryNodes
<1>7. PICK m : m = envelopes[e].on[1]
    OBVIOUS
<1>8. envelopes[e].kind = "purge" => m \in purging
    BY ZenonT(30), <1>2, <1>7 DEF EnvelopeOK
<1>9. CASE GiveUp(e) /\ UNCHANGED envelopes
    <2>1. rows' = rows /\ cache' = cache /\ Redo(e, {}, "failed") /\ nodes' = nodes \ Leftover(e)
        BY <1>9 DEF GiveUp
    <2> QED BY ZenonT(30), <1>6, <1>9, <2>1
<1>10. CASE RedoWrite(e) /\ UNCHANGED envelopes
    <2>1. /\ Whole(e) /\ envelopes[e].kind # "purge" /\ cache' = CachedAll(cache, Heads(e))
          /\ Redo(e, ToClose(e), "applied") /\ rows' = rows
          /\ \A n \in nodes \ nodes' : n \in Leftover(e)
        BY <1>10 DEF RedoWrite
    <2>2. Heads(e) \subseteq rows
        BY ZenonT(30), <1>2, HeadsStored
    <2> QED BY ZenonT(30), <1>5, <1>10, <2>1, <2>2
<1>11. CASE RedoRetract(e) /\ UNCHANGED envelopes
    <2>1. /\ Whole(e) /\ envelopes[e].kind # "purge" /\ cache' = CachedAll(cache, Named(e))
          /\ Redo(e, ToClose(e), "applied") /\ rows' = rows
          /\ \A n \in nodes \ nodes' : n \in Leftover(e)
        BY <1>11 DEF RedoRetract
    <2>2. Named(e) \subseteq rows
        BY DEF Named
    <2> QED BY <1>5, <1>11, <2>1, <2>2
<1>12. CASE RedoPurge(e) /\ UNCHANGED envelopes
    <2>1. /\ rows' = rows \ Of(m) /\ cache' = Evicted(m) /\ nodes' = nodes \ Leftover(e)
          /\ Redo(e, {}, "applied") /\ m \in purging
        BY ZenonT(30), <1>7, <1>8, <1>12 DEF RedoPurge
    <2> QED BY ZenonT(30), <1>6, <1>12, <2>1
<1>13. CASE Abandon(e)
    <2>1. PICK some \in SUBSET Leftover(e) :
              /\ nodes' = nodes \ some
              /\ \/ rows' = rows /\ cache' = cache
                 \/ envelopes[e].kind = "purge" /\ rows' = rows \ Of(m) /\ cache' = Evicted(m)
        BY ZenonT(30), <1>7, <1>13 DEF Abandon
    <2>2. redo' = redo /\ Set(e, "failed")
        BY <1>13 DEF Abandon
    <2>3. \A n \in nodes \ nodes' : n \in Leftover(e)
        BY <2>1
    <2> QED BY ZenonT(30), <1>6, <1>8, <2>1, <2>2, <2>3
<1> QED BY ZenonT(30), <1>9, <1>10, <1>11, <1>12, <1>13 DEF Reconcile

LEMMA RedoDeleteNodes ==
    ASSUME ChainInv, ChainInv', NodeInv, RedoDelete
    PROVE  NodeInv'
<1>1. phase = "opening" /\ UNCHANGED <<nodes, envelopes, cache, call, purging>>
    BY DEF RedoDelete, ghosts
<1>2. PICK r \in redo.todo : /\ rows' = {s \in rows : s.id # r.id}
                            /\ redo' = [redo EXCEPT !.held = {r}, !.todo = @ \ {r}]
    BY DEF RedoDelete
<1>3. /\ redo \in [env : Nat, todo : SUBSET Revision, held : SUBSET Revision, outcome : {"applied", "failed"}]
      /\ redo.todo \cup redo.held \subseteq Copies /\ \A c \in Callers : call'[c] = Idle
    BY ZenonT(30), <1>1, OpeningFacts
<1>4. redo'.held = {r} /\ redo'.todo = redo.todo \ {r}
    <2>1. PICK x : x = redo
        OBVIOUS
    <2>2. PICK y : y = redo'
        OBVIOUS
    <2>3. /\ x \in [env : Nat, todo : SUBSET Revision, held : SUBSET Revision, outcome : {"applied", "failed"}]
          /\ y = [x EXCEPT !.held = {r}, !.todo = x.todo \ {r}] /\ r \in x.todo
        BY ZenonT(30), <1>2, <1>3, <2>1, <2>2
    <2>4. y.held = {r} /\ y.todo = x.todo \ {r}
        BY ONLY <2>3, SMTT(20)
    <2> QED BY ZenonT(30), <2>1, <2>2, <2>4
<1>5. RowsKept
    <2>1. r \in Copies /\ Superseded(r) /\ is_live(r)
        BY ZenonT(30), <1>3 DEF ChainInv, RedoOK, NodeInv
    <2> QED BY ZenonT(30), <1>2, <2>1, DeleteKept
<1>6. (\A s \in redo'.todo : is_live(s) /\ Known(s.id)) /\ \A s \in redo'.held : Known(s.id)
    <2>1. \A s \in redo.todo : is_live(s) /\ Known(s.id)
        BY ZenonT(30), KnownFacts DEF NodeInv
    <2> QED BY ZenonT(30), <1>4, <2>1
<1>7. \A m \in Memories : cache'[m] # None => Known(cache'[m].id)
    BY ZenonT(30), <1>1, KnownFacts
<1>8. (\A s \in rows' : s \in rows) /\ \A n \in nodes \ nodes' : Expendable(n)
    BY ZenonT(30), <1>1, <1>2
<1> QED BY ZenonT(30), <1>1, <1>3, <1>5, <1>6, <1>7, <1>8, RecoveryNodes

LEMMA RedoRewriteNodes ==
    ASSUME ChainInv, ChainInv', NodeInv, RedoRewrite
    PROVE  NodeInv'
<1>1. phase = "opening" /\ UNCHANGED <<nodes, envelopes, call, purging, given>> /\ redo' = [redo EXCEPT !.held = {}]
    BY DEF RedoRewrite, ghosts, bounds
<1>2. PICK r \in redo.held : rows' = rows \cup {r} /\ cache' = Evicted(r.logical)
    BY DEF RedoRewrite
<1>3. /\ redo \in [env : Nat, todo : SUBSET Revision, held : SUBSET Revision, outcome : {"applied", "failed"}]
      /\ Typed /\ \A c \in Callers : call'[c] = Idle
    BY ZenonT(30), <1>1, OpeningFacts
<1>4. redo'.held = {} /\ redo'.todo = redo.todo
    <2>1. PICK x : x = redo
        OBVIOUS
    <2>2. PICK y : y = redo'
        OBVIOUS
    <2>3. /\ x \in [env : Nat, todo : SUBSET Revision, held : SUBSET Revision, outcome : {"applied", "failed"}]
          /\ y = [x EXCEPT !.held = {}]
        BY ZenonT(30), <1>1, <1>3, <2>1, <2>2
    <2>4. y.held = {} /\ y.todo = x.todo
        BY ONLY <2>3, SMTT(20)
    <2> QED BY ZenonT(30), <2>1, <2>2, <2>4
<1>5. Known(r.id) /\ Superseded(r)'
    <2>1. Superseded(r) /\ Known(r.id)
        BY ZenonT(30), KnownFacts DEF ChainInv, RedoOK
    <2>2. rows \subseteq rows'
        BY <1>2
    <2> QED BY ZenonT(30), <1>1, <2>1, <2>2 DEF Superseded
<1>6. \A s \in rows' : \/ s \in rows
                       \/ Known(s.id) /\ Linked(s)' /\ (s.until = None \/ Superseded(s)')
    <2>1. Linked(r)'
        BY ZenonT(30), <1>5, OldLinked
    <2> QED BY ZenonT(30), <1>2, <1>5, <2>1
<1>7. RowsKept
    <2>1. rows \subseteq rows'
        BY <1>2
    <2> QED BY ZenonT(30), <2>1 DEF RowsKept
<1>8. (\A s \in redo'.todo : is_live(s) /\ Known(s.id)) /\ \A s \in redo'.held : Known(s.id)
    BY ZenonT(30), <1>4, KnownFacts DEF NodeInv
<1>9. \A m \in Memories : cache'[m] # None => Known(cache'[m].id)
    BY ZenonT(30), <1>2, <1>3, EvictedKnown, KnownFacts
<1>10. \A n \in nodes \ nodes' : Expendable(n)
    BY <1>1
<1> QED BY ZenonT(30), <1>1, <1>3, <1>6, <1>7, <1>8, <1>9, <1>10, RecoveryNodes

(* The end of a recovery, a crash and an open leave the rows alone.         *)
LEMMA RestingNodes ==
    ASSUME ChainInv, ChainInv', NodeInv, RedoMark \/ RedoFault \/ Crash \/ Open \/ Opened
    PROVE  NodeInv'
<1>1. Typed
    BY DEF ChainInv
<1>2. UNCHANGED <<rows, nodes, purging>>
    BY DEF RedoMark, RedoFault, Crash, Open, Opened, store, ghosts
<1>3. redo' = NoRedo \/ redo' = redo
    BY DEF RedoMark, RedoFault, Crash, Open, Opened
<1>4. (\A s \in redo'.todo : is_live(s) /\ Known(s.id)) /\ \A s \in redo'.held : Known(s.id)
    <2>1. CASE redo' = NoRedo
        BY ZenonT(30), <2>1, NoRedoFacts
    <2>2. CASE redo' = redo
        BY ZenonT(30), <2>2, KnownFacts DEF NodeInv
    <2> QED BY ZenonT(30), <1>3, <2>1, <2>2
<1>5. \A m \in Memories : cache'[m] # None => Known(cache'[m].id)
    <2>1. cache' = cache \/ cache' = NoHeads
        BY DEF RedoMark, RedoFault, Crash, Open, Opened
    <2>2. \A m \in Memories : NoHeads[m] = None
        BY DEF NoHeads
    <2> QED BY ZenonT(30), <2>1, <2>2, KnownFacts
<1>6. \A c \in Callers : call'[c] = Idle
    <2>1. CASE Crash
        BY <2>1 DEF Crash
    <2>2. CASE RedoMark \/ RedoFault \/ Open \/ Opened
        <3>1. phase # "up" /\ call' = call
            BY <2>2 DEF RedoMark, RedoFault, Open, Opened
        <3> QED BY ZenonT(30), <1>1, <3>1 DEF Typed
    <2> QED BY ZenonT(30), <2>1, <2>2
<1>7. envelopes' = envelopes \/ \E e \in Nat, s \in {"applied", "failed"} : Set(e, s)
    <2>1. CASE RedoMark \/ RedoFault
        <3>1. phase = "opening" /\ (Set(redo.env, redo.outcome) \/ Set(redo.env, "failed"))
            BY <2>1 DEF RedoMark, RedoFault
        <3>2. redo.env \in Nat /\ redo.outcome \in {"applied", "failed"}
            BY ZenonT(30), <3>1, OpeningFacts
        <3> QED BY ZenonT(30), <3>1, <3>2
    <2>2. CASE Crash \/ Open \/ Opened
        BY <2>2 DEF Crash, Open, Opened, store
    <2> QED BY ZenonT(30), <2>1, <2>2
<1>8. RowsKept /\ (\A s \in rows' : s \in rows) /\ \A n \in nodes \ nodes' : Expendable(n)
    BY <1>2 DEF RowsKept
<1> QED BY ZenonT(30), <1>2, <1>4, <1>5, <1>6, <1>7, <1>8, RecoveryNodes

LEMMA InitNodes ==
    ASSUME Init
    PROVE  NodeInv
<1>1. /\ given = Len(Founded) /\ nodes = 1 .. Len(Founded) /\ envelopes = <<>>
      /\ call = [c \in Callers |-> Idle] /\ redo = NoRedo
    BY DEF Init
<1>2. ChainInv
    BY InitChain
<1>3. \A r \in rows : Linked(r) /\ (r.until # None => Superseded(r))
    <2>1. \A r \in rows : r.id \in nodes
        BY ZenonT(30), <1>1, <1>2 DEF ChainInv, Typed, Revision
    <2>2. \A i : [logical |-> Founded[i], id |-> i, version |-> 1, op |-> "Create", from |-> 0,
                  until |-> None, merged_into |-> None].until = None
        BY SMTT(20)
    <2>3. \A r \in rows : r.until = None
        BY <2>2 DEF Init
    <2> QED BY ZenonT(30), <2>1, <2>3 DEF Linked
<1>4. \A c \in Callers : call[c].pc \notin Unwritten \cup {"sweep", "unlink"}
    <2>1. \A c \in Callers : call[c].pc = "idle"
        BY ZenonT(30), <1>1, IdleFacts
    <2> QED BY <2>1 DEF Unwritten
<1>5. \A c \in Callers : Built(c) = {} /\ NodesAdded(c) /\ Purges(c)
    BY <1>4 DEF Built, NodesAdded, Purges, Unwritten
<1>6. Fresh
    BY <1>5 DEF Fresh
<1>7. \A r \in redo.todo : is_live(r)
    BY ZenonT(30), <1>1, NoRedoFacts
<1>8. 1 .. Len(envelopes) = {}
    <2>1. 1 .. Len(<<>>) = {}
        BY SMTT(20)
    <2> QED BY ZenonT(30), <1>1, <2>1
<1> QED BY ZenonT(30), <1>3, <1>5, <1>6, <1>7, <1>8 DEF NodeInv

LEMMA StutterNodes ==
    ASSUME NodeInv, UNCHANGED vars
    PROVE  NodeInv'
<1>1. UNCHANGED <<rows, nodes, envelopes, cache, call, redo, purging>>
    BY DEF vars, store, ghosts
<1>2. \A n : MergedWithPurged(n) => MergedWithPurged(n)'
    BY ZenonT(30), <1>1 DEF MergedWithPurged
<1>3. \A r \in rows' : Linked(r)' /\ (r.until # None => Superseded(r)')
    <2>1. \A r : Newest(r)' => Newest(r)
        BY ZenonT(30), <1>1 DEF Newest
    <2>2. \A r : Superseded(r) => Superseded(r)'
        BY ZenonT(30), <1>1 DEF Superseded
    <2> QED BY ZenonT(30), <1>1, <1>2, <2>1, <2>2 DEF NodeInv, Linked
<1>4. \A c : Built(c)' = Built(c) /\ Read(c)' = Read(c)
    BY <1>1 DEF Built, Read
<1>5. \A n : Known(n)' => Known(n)
    BY ZenonT(30), <1>1, <1>4 DEF Known, CachedHeads
<1>6. Fresh'
    BY ZenonT(30), <1>4, <1>5 DEF NodeInv, Fresh
<1>7. \A c \in Callers : NodesAdded(c)' /\ Purges(c)'
    BY ZenonT(30), <1>1, <1>4 DEF NodeInv, NodesAdded, Purges
<1>8. \A e \in 1 .. Len(envelopes') : StoredTogether(e)' /\ MergeIsWhole(e)'
    <2> SUFFICES ASSUME NEW e \in 1 .. Len(envelopes) PROVE StoredTogether(e)' /\ MergeIsWhole(e)'
        BY <1>1
    <2>1. StoredTogether(e) /\ MergeIsWhole(e)
        BY DEF NodeInv
    <2>2. StoredTogether(e)'
        BY ZenonT(30), <1>1, <1>4, <2>1 DEF StoredTogether
    <2>3. PICK n : n = envelopes[e].next[1]
        OBVIOUS
    <2>4. Known(envelopes[e].next[1])' => Known(n)'
        BY ZenonT(30), <1>1, <2>3 DEF Known
    <2>5. MergeIsWhole(e)'
        BY ZenonT(30), <1>1, <1>5, <2>1, <2>3, <2>4 DEF MergeIsWhole
    <2> QED BY ZenonT(30), <2>2, <2>5
<1>9. \A r \in redo'.todo : is_live(r)
    BY <1>1 DEF NodeInv
<1> QED BY ZenonT(30), <1>3, <1>6, <1>7, <1>8, <1>9 DEF NodeInv

LEMMA CallNodes ==
    ASSUME ChainInv, ChainInv', NodeInv, NEW c \in Callers,
           Ask(c) \/ Edit(c) \/ History(c) \/ Sweep(c) \/ Unlink(c) \/ Scan(c) \/ Replace(c)
    PROVE  NodeInv'
<1>1. CASE Ask(c)
    BY ZenonT(30), <1>1, AskNodes
<1>2. CASE Edit(c)
    BY ZenonT(30), <1>2, UniqueNodes, ResolveNodes, LoadedNodes, IntendNodes, AddNodeNodes, AppendRowsNodes, UndoNodes,
       FailFinishNodes, CloseNodes, RewriteNodes, AuditNodes, CacheNodes, DetachNodes DEF Edit
<1>3. CASE History(c) \/ Sweep(c) \/ Unlink(c)
    BY ZenonT(30), <1>3, HistoryNodes, SweepNodes, UnlinkNodes
<1>4. CASE Scan(c) \/ Replace(c)
    BY ZenonT(30), <1>4, ScanNodes, ReplaceNodes
<1> QED BY ZenonT(30), <1>1, <1>2, <1>3, <1>4

LEMMA StepNodes ==
    ASSUME ChainInv, ChainInv', NodeInv, [Next]_vars
    PROVE  NodeInv'
<1>1. CASE \E c \in Callers : Ask(c) \/ Edit(c) \/ History(c) \/ Sweep(c) \/ Unlink(c) \/ Scan(c) \/ Replace(c)
    BY ZenonT(30), <1>1, CallNodes
<1>2. CASE Recovery
    BY ZenonT(30), <1>2, ReconcileNodes, RedoDeleteNodes, RedoRewriteNodes, RestingNodes DEF Recovery
<1>3. CASE Crash \/ Open
    BY ZenonT(30), <1>3, RestingNodes
<1>4. CASE UNCHANGED vars
    BY ZenonT(30), <1>4, StutterNodes
<1> QED BY ZenonT(30), <1>1, <1>2, <1>3, <1>4 DEF Next

(* Every current fact has its node: a live head is newest in its chain.     *)
LEMMA HeadsAreLinked ==
    ASSUME ChainInv, NodeInv
    PROVE  LiveHeadHasNode
<1> SUFFICES ASSUME NEW m \in Memories \ purging, Of(m) # {}, is_live(HeadOf(Of(m)))
             PROVE  HeadOf(Of(m)).id \in nodes \/ MergedWithPurged(HeadOf(Of(m)).id)
    BY DEF LiveHeadHasNode
<1>1. PICK S : S = Of(m)
    OBVIOUS
<1>2. PICK h : h = HeadOf(S)
    BY ZenonT(30)
<1>3. S # {} /\ S \subseteq Revision /\ given \in Nat /\ \A s : s \in S <=> s \in rows /\ s.logical = m
    BY ZenonT(30), <1>1 DEF Of, ChainInv, Typed
<1>4. h \in S /\ \A s \in S : ~semantic_revision_is_newer(s, h)
    BY ZenonT(30), <1>2, <1>3, HeadFacts
<1>5. h \in rows /\ h.logical = m /\ Newest(h)
    BY ZenonT(30), <1>3, <1>4 DEF Newest
<1>6. is_live(h)
    BY ZenonT(30), <1>1, <1>2
<1>7. h.id \in nodes \/ MergedWithPurged(h.id)
    BY ZenonT(30), <1>5, <1>6 DEF NodeInv, Linked
<1> QED BY ZenonT(30), <1>1, <1>2, <1>7

(* The invariant of the chains and that of the nodes hold together, for     *)
(* every number of callers, crashes and faults.                             *)
THEOREM NodesInvariant == Spec => [](ChainInv /\ NodeInv)
<1>1. Init => ChainInv /\ NodeInv
    BY ZenonT(30), InitChain, InitNodes
<1>2. ChainInv /\ NodeInv /\ [Next]_vars => (ChainInv /\ NodeInv)'
    BY ZenonT(30), ChainStep, StepNodes
<1> QED BY <1>1, <1>2, PTL DEF Spec

(* A current fact never loses its graph node: not to an undo, a purge, an   *)
(* edit that raced with it, a crash in the middle of one, or the recovery   *)
(* that follows.                                                            *)
THEOREM LiveHeadsHaveNodes == Spec => []LiveHeadHasNode
<1>1. ChainInv /\ NodeInv => LiveHeadHasNode
    BY HeadsAreLinked
<1> QED BY <1>1, NodesInvariant, PTL

=============================================================================
