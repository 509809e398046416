--------------------------- MODULE SuggestionsProofs ---------------------------
(***************************************************************************)
(* Proofs about Suggestions, and with it about the version history of a    *)
(* resume (ResumeVersions).                                                *)
(***************************************************************************)
EXTENDS Suggestions, FiniteSetTheorems, SequenceTheorems, TLAPS

(* The inductive invariant *)

Kinds == {"save", "restore"} \cup Decisions

Items == [id : Bullets, text : Texts]

\* The fields of a version; the request has no type of its own.
VersionTyped(row) ==
  /\ DOMAIN row = {"parent", "via", "author", "source", "request", "snapshot", "links"}
  /\ row.parent \in 0..MaxVersions /\ row.via \in Kinds
  /\ row.author \in {<<>>} \cup ((0..MaxVersions) \X (0..MaxVersions))
  /\ row.source \in Nat /\ row.snapshot \in Seq(Items) /\ row.links \in SUBSET LinkRow

\* The versions are made one after the other, and the last one is always the head.
HistoryInv ==
  /\ versions \in Seq({versions[v] : v \in DOMAIN versions})
  /\ Len(versions) <= MaxVersions
  /\ resume = [head |-> Len(versions), number |-> Len(versions)]
  /\ shown = {<<n, n>> : n \in 0..Len(versions)}
  /\ \A v \in DOMAIN versions :
       /\ VersionTyped(versions[v])
       /\ versions[v].parent = v - 1
       /\ versions[v].via \in {"save", "restore"} => versions[v].author = <<v - 1, v - 1>>
       /\ versions[v].via = "restore" => versions[v].source \in 1..(v - 1)
       /\ versions[v].via \in Decisions => versions[v].source \in DOMAIN suggestions /\ v > 1

FactsInv ==
  /\ facts \in [Facts -> FactRow \cup {None}]
  /\ \A f \in Facts : Confirmed(f) => <<f, facts[f].value>> \in vouched

\* The request a version was made for names the base it was made from, or the decision.
RequestFits(row, base) ==
  /\ row.via = "save"      => row.request.route = <<"save">> /\ row.request.body[1] = base
  /\ row.via = "restore"   => row.request.route = <<"restore", row.source>>
                              /\ row.request.body = base
  /\ row.via \in Decisions => row.request.route = <<"decide", row.source, row.via>>

RequestsInv == \A v \in DOMAIN versions : RequestFits(versions[v], v - 1)

MadeBy(s) == {v \in DOMAIN versions : versions[v].via \in Decisions /\ versions[v].source = s}

\* The decisions on a suggestion of a status: none, one, or one and then its revert.
DecidedAs(s, status) ==
  /\ status \in {"pending", "blocked"} => MadeBy(s) = {}
  /\ status \in {"accepted", "edited", "ignored"} =>
       \E v \in DOMAIN versions : MadeBy(s) = {v} /\ StatusAfter[versions[v].via] = status
  /\ status = "reverted" =>
       \E v, w \in DOMAIN versions :
         /\ v < w /\ MadeBy(s) = {v, w}
         /\ versions[v].via # "revert" /\ versions[w].via = "revert"

DecisionsInv ==
  /\ suggestions \in Seq(SuggestionRow)
  /\ suggestions # <<>> => versions # <<>>
  /\ \A s \in DOMAIN suggestions : DecidedAs(s, suggestions[s].status)

SuggestionsInv ==
  /\ HistoryInv /\ FactsInv /\ RequestsInv /\ DecisionsInv
  /\ EvidenceWasConfirmed /\ EvidenceCoversText /\ DecisionsReplaceOriginals

-------------------------------------------------------------------------------
(* The history grows *)

\* The history gets one more version, on top of the head.
Grown(row) ==
  LET new == Len(versions) + 1 IN
  /\ versions' \in Seq({versions'[v] : v \in DOMAIN versions'})
  /\ Len(versions') = new /\ new <= MaxVersions /\ DOMAIN versions' = 1..new
  /\ versions'[new] = row
  /\ \A v \in DOMAIN versions : versions'[v] = versions[v]
  /\ resume' = [head |-> new, number |-> new]
  /\ shown' = {<<n, n>> : n \in 0..new}

LEMMA FunctionIsSeq ==
  ASSUME NEW S, NEW n \in Nat, NEW f \in [1..n -> S]
  PROVE  f \in Seq(S)
BY SeqDef

LEMMA SeqOfItsElements ==
  ASSUME NEW S, NEW seq \in Seq(S)
  PROVE  seq \in Seq({seq[k] : k \in DOMAIN seq})
<1> DEFINE T == {seq[k] : k \in DOMAIN seq}
<1>1. PICK n \in Nat : seq \in [1..n -> S]
  BY SeqDef
<1>2. seq \in [1..n -> T]
  BY <1>1
<1> HIDE DEF T
<1>3. seq \in Seq(T)
  BY <1>2, FunctionIsSeq
<1> QED
  BY <1>3 DEF T

\* Appending to a sequence of any elements.
LEMMA AppendAny ==
  ASSUME NEW seq, seq \in Seq({seq[k] : k \in DOMAIN seq}), NEW elt,
         NEW longer, longer = Append(seq, elt)
  PROVE  /\ longer \in Seq({longer[k] : k \in DOMAIN longer})
         /\ Len(longer) = Len(seq) + 1 /\ DOMAIN longer = 1..(Len(seq) + 1)
         /\ longer[Len(seq) + 1] = elt
         /\ \A k \in DOMAIN seq : longer[k] = seq[k]
<1> DEFINE S == {seq[k] : k \in DOMAIN seq} \cup {elt}
<1>1. seq \in Seq(S) /\ elt \in S
  BY SeqDef
<1> HIDE DEF S
<1>2. /\ Len(seq) \in Nat /\ DOMAIN seq = 1..Len(seq)
      /\ longer \in Seq(S) /\ Len(longer) = Len(seq) + 1 /\ DOMAIN longer = 1..(Len(seq) + 1)
      /\ longer[Len(seq) + 1] = elt
      /\ \A k \in 1..Len(seq) : longer[k] = seq[k]
  BY <1>1, AppendProperties, LenProperties
<1>3. longer \in Seq({longer[k] : k \in DOMAIN longer})
  BY <1>2, SeqOfItsElements
<1> QED
  BY <1>2, <1>3

\* What is known of the history before a step.
LEMMA HistoryIs ==
  ASSUME HistoryInv
  PROVE  /\ Len(versions) \in Nat /\ DOMAIN versions = 1..Len(versions)
         /\ Len(versions) <= MaxVersions /\ MaxVersions \in Nat
         /\ Current = Len(versions) /\ Count = Len(versions)
         /\ resume.number = Len(versions)
         /\ shown = {<<n, n>> : n \in 0..Len(versions)}
<1>1. /\ Len(versions) \in Nat /\ DOMAIN versions = 1..Len(versions)
  BY LenProperties DEF HistoryInv
<1> QED
  BY <1>1, BoundsAssumption DEF HistoryInv, Current, Count

\* The version a request makes.
NewRow(req, author, via, source, snapshot, links) ==
  [parent |-> Len(versions), via |-> via, author |-> author, source |-> source,
   request |-> req, snapshot |-> snapshot, links |-> links]

LEMMA AppendVersionEffect ==
  ASSUME HistoryInv, NEW req, NEW author, NEW via, NEW source, NEW snapshot, NEW links,
         AppendVersion(req, author, via, source, snapshot, links)
  PROVE  /\ Grown(NewRow(req, author, via, source, snapshot, links))
         /\ UNCHANGED factVars
<1> DEFINE row == NewRow(req, author, via, source, snapshot, links)
           new == Len(versions) + 1
<1>1. /\ Count < MaxVersions
      /\ versions' = Append(versions, row)
      /\ resume' = [head |-> new, number |-> new]
      /\ shown' = shown \cup {<<new, new>>}
      /\ UNCHANGED factVars
  BY HistoryIs DEF AppendVersion, NewRow
<1> HIDE DEF row
<1>2. /\ versions' \in Seq({versions'[v] : v \in DOMAIN versions'})
      /\ Len(versions') = new /\ DOMAIN versions' = 1..new
      /\ versions'[new] = row
      /\ \A v \in DOMAIN versions : versions'[v] = versions[v]
  BY <1>1, AppendAny DEF HistoryInv
<1>3. shown' = {<<n, n>> : n \in 0..new}
  <2>1. 0..new = (0..Len(versions)) \cup {new}
    BY HistoryIs
  <2> HIDE DEF new
  <2> QED
    BY <1>1, <2>1, HistoryIs
<1>4. new <= MaxVersions
  BY <1>1, HistoryIs
<1> QED
  BY <1>1, <1>2, <1>3, <1>4 DEF Grown, row

-------------------------------------------------------------------------------
(* What a new version may be *)

HoldsIn(v) == EvidenceHolds(versions[v].snapshot, versions[v].links)

\* The evidence of a version the new one rests on is passed on to it.
EvidencePassedOn(row) ==
  /\ row.via = "save" => EvidenceHolds(row.snapshot, row.links)
  /\ row.via = "restore" /\ HoldsIn(row.source) => EvidenceHolds(row.snapshot, row.links)
  /\ row.via = "ignore" /\ HoldsIn(row.parent) => EvidenceHolds(row.snapshot, row.links)
  /\ LET text == row.snapshot[suggestions[row.source].position].text IN
     row.via \in {"accept", "edit"} /\ HoldsIn(row.parent) /\ ClaimEnd[text] = Length[text] =>
       EvidenceHolds(row.snapshot, row.links)

\* A decision other than a revert finds the original and leaves the other texts alone.
OriginalReplaced(row) ==
  row.via \in {"accept", "edit", "ignore"} =>
    LET decided == suggestions[row.source]
        before  == versions[row.parent].snapshot
    IN  /\ before[decided.position].text = decided.original
        /\ \A i \in DOMAIN before \ {decided.position} : row.snapshot[i] = before[i]

RowFits(row) ==
  /\ VersionTyped(row) /\ row.parent = Len(versions)
  /\ row.via \in {"save", "restore"} => row.author = <<Len(versions), Len(versions)>>
  /\ row.via = "restore" => row.source \in DOMAIN versions
  /\ row.via \in Decisions => row.source \in DOMAIN suggestions /\ Len(versions) > 0
  /\ RequestFits(row, Len(versions))
  /\ \A l \in row.links : <<l.fact, l.value>> \in vouched
  /\ EvidencePassedOn(row)
  /\ OriginalReplaced(row)

\* What is known of a version there is.
LEMMA VersionIs ==
  ASSUME HistoryInv, NEW v \in DOMAIN versions
  PROVE  /\ VersionTyped(versions[v])
         /\ v \in 1..Len(versions)
         /\ versions[v].parent = v - 1
BY HistoryIs DEF HistoryInv

LEMMA KindsApart ==
  /\ "save" \notin Decisions /\ "restore" \notin Decisions
  /\ Decisions = {"accept", "edit", "ignore", "revert"}
BY DEF Decisions

\* A saved text has a link for each bullet, and no other.
LEMMA SavedEvidenceHolds ==
  ASSUME FactsInv, NEW snapshot \in Snapshots, NEW evidence \in [Bullets -> Facts],
         EvidenceAccepted(snapshot, evidence)
  PROVE  /\ EvidenceHolds(snapshot, EvidenceLinks(snapshot, evidence))
         /\ EvidenceLinks(snapshot, evidence) \in SUBSET LinkRow
         /\ \A l \in EvidenceLinks(snapshot, evidence) : <<l.fact, l.value>> \in vouched
<1> DEFINE links == EvidenceLinks(snapshot, evidence)
           link(i) == Link(snapshot[i].id, Length[snapshot[i].text], evidence[snapshot[i].id])
<1>1. snapshot \in Seq(Items) /\ UniqueBullets(snapshot)
  BY SnapshotAssumption DEF Items
<1>2. ASSUME NEW i \in DOMAIN snapshot
      PROVE  /\ snapshot[i].id \in Bullets /\ snapshot[i].text \in Texts
             /\ evidence[snapshot[i].id] \in Facts
             /\ Length[snapshot[i].text] \in Nat
  <2>1. snapshot[i] \in Items
    BY <1>1, LenProperties, ElementOfSeq
  <2> QED
    BY <2>1, LengthAssumption DEF Items
<1>3. ASSUME NEW i \in DOMAIN snapshot
      PROVE  LET f == evidence[snapshot[i].id] IN
             /\ facts[f] \in FactRow /\ facts[f].status = "confirmed" /\ facts[f].sourced
             /\ SupportsEntities(snapshot[i].text, facts[f].value)
             /\ <<f, facts[f].value>> \in vouched
  BY <1>2 DEF EvidenceAccepted, Confirmed, Exists, FactsInv
<1>4. ASSUME NEW i \in DOMAIN snapshot
      PROVE  /\ link(i) \in LinkRow
             /\ link(i).bullet = snapshot[i].id /\ link(i).end = Length[snapshot[i].text]
             /\ link(i).status = "confirmed" /\ link(i).sourced
             /\ SupportsEntities(snapshot[i].text, link(i).value)
             /\ <<link(i).fact, link(i).value>> \in vouched
  BY <1>2, <1>3 DEF Link, LinkRow, FactRow
<1> HIDE DEF link
<1>5. links = {link(i) : i \in DOMAIN snapshot}
  BY DEF EvidenceLinks, link
<1> HIDE DEF links
<1>6. ASSUME NEW i \in DOMAIN snapshot
      PROVE  LinksOf(links, snapshot[i].id) = {link(i)}
  <2>1. \A j \in DOMAIN snapshot : snapshot[j].id = snapshot[i].id => j = i
    BY <1>1 DEF UniqueBullets
  <2>2. link(i) \in links /\ link(i).bullet = snapshot[i].id
    BY <1>4, <1>5
  <2>3. ASSUME NEW l \in links, l.bullet = snapshot[i].id
        PROVE  l = link(i)
    <3>1. PICK j \in DOMAIN snapshot : l = link(j)
      BY <1>5
    <3>2. snapshot[j].id = snapshot[i].id
      BY <1>4, <2>3, <3>1
    <3> QED
      BY <2>1, <3>1, <3>2
  <2> QED
    BY <2>2, <2>3 DEF LinksOf
<1>7. EvidenceHolds(snapshot, links)
  BY <1>1, <1>4, <1>5, <1>6 DEF EvidenceHolds, Covered
<1> QED
  BY <1>4, <1>5, <1>7 DEF links

LEMMA SaveEffect ==
  ASSUME HistoryInv, FactsInv, NEW key, NEW author \in shown, NEW snapshot \in Snapshots,
         NEW evidence \in [Bullets -> Facts], Save(key, author, snapshot, evidence)
  PROVE  /\ UNCHANGED factVars
         /\ \/ UNCHANGED resumeVars
            \/ \E row : Grown(row) /\ RowFits(row) /\ row.via = "save"
<1> DEFINE links == EvidenceLinks(snapshot, evidence)
           req   == Request(<<"save">>, key, <<author[1], snapshot, evidence>>)
           row   == NewRow(req, author, "save", 0, snapshot, links)
<1>1. /\ author[1] = Len(versions) /\ EvidenceAccepted(snapshot, evidence)
      /\ \/ UNCHANGED <<factVars, resumeVars>>
         \/ AppendVersion(req, author, "save", 0, snapshot, links)
  BY HistoryIs DEF Save, BaseIsHead
<1>2. author = <<Len(versions), Len(versions)>>
  BY <1>1, HistoryIs
<1>3. EvidenceHolds(snapshot, links) /\ links \in SUBSET LinkRow
      /\ \A l \in links : <<l.fact, l.value>> \in vouched
  BY <1>1, SavedEvidenceHolds
<1>4. snapshot \in Seq(Items)
  BY SnapshotAssumption DEF Items
<1>5. req.route = <<"save">> /\ req.body[1] = Len(versions)
  BY <1>1 DEF Request
<1> HIDE DEF req, links
<1>6. /\ row.parent = Len(versions) /\ row.via = "save" /\ row.author = author
      /\ row.source = 0 /\ row.request = req /\ row.snapshot = snapshot /\ row.links = links
      /\ DOMAIN row = {"parent", "via", "author", "source", "request", "snapshot", "links"}
  BY DEF NewRow
<1> HIDE DEF row
<1>7. VersionTyped(row)
  BY <1>2, <1>3, <1>4, <1>6, HistoryIs DEF VersionTyped, Kinds
<1>8. RowFits(row)
  BY <1>2, <1>3, <1>5, <1>6, <1>7, KindsApart
  DEF RowFits, RequestFits, EvidencePassedOn, OriginalReplaced
<1>9. CASE AppendVersion(req, author, "save", 0, snapshot, links)
  <2>1. Grown(row) /\ UNCHANGED factVars
    BY <1>9, AppendVersionEffect DEF row
  <2> QED
    BY <1>6, <1>8, <2>1
<1> QED
  BY <1>1, <1>9

LEMMA RestoreEffect ==
  ASSUME HistoryInv, EvidenceWasConfirmed, NEW key, NEW author \in shown,
         NEW source \in DOMAIN versions, Restore(key, author, source)
  PROVE  /\ UNCHANGED factVars
         /\ \E row : Grown(row) /\ RowFits(row) /\ row.via = "restore"
<1> DEFINE old == versions[source]
           req == Request(<<"restore", source>>, key, author[1])
           row == NewRow(req, author, "restore", source, old.snapshot, old.links)
<1>1. /\ author[1] = Len(versions)
      /\ AppendVersion(req, author, "restore", source, old.snapshot, old.links)
  BY HistoryIs DEF Restore, BaseIsHead
<1>2. author = <<Len(versions), Len(versions)>>
  BY <1>1, HistoryIs
<1>3. /\ VersionTyped(old) /\ source \in Nat
      /\ \A l \in old.links : <<l.fact, l.value>> \in vouched
  BY VersionIs, HistoryIs DEF EvidenceWasConfirmed
<1>4. req.route = <<"restore", source>> /\ req.body = Len(versions)
  BY <1>1 DEF Request
<1> HIDE DEF req
<1>5. /\ row.parent = Len(versions) /\ row.via = "restore" /\ row.author = author
      /\ row.source = source /\ row.request = req
      /\ row.snapshot = old.snapshot /\ row.links = old.links
      /\ DOMAIN row = {"parent", "via", "author", "source", "request", "snapshot", "links"}
  BY DEF NewRow
<1> HIDE DEF row
<1>6. VersionTyped(row)
  BY <1>2, <1>3, <1>5, HistoryIs DEF VersionTyped, Kinds
<1>7. RowFits(row)
  BY <1>2, <1>3, <1>4, <1>5, <1>6, KindsApart
  DEF RowFits, RequestFits, EvidencePassedOn, OriginalReplaced, HoldsIn
<1>8. Grown(row) /\ UNCHANGED factVars
  BY <1>1, AppendVersionEffect DEF row
<1> QED
  BY <1>5, <1>7, <1>8

-------------------------------------------------------------------------------
(* Decisions *)

\* One text of a snapshot is replaced.
LEMMA ReplacedText ==
  ASSUME NEW before \in Seq(Items), NEW p \in DOMAIN before, NEW text \in Texts,
         NEW after, after = [before EXCEPT ![p].text = text]
  PROVE  /\ after \in Seq(Items) /\ DOMAIN after = DOMAIN before
         /\ before[p] \in Items
         /\ after[p].id = before[p].id /\ after[p].text = text
         /\ \A i \in DOMAIN before : i # p => after[i] = before[i]
         /\ text = before[p].text => after = before
<1>1. before[p] \in Items /\ p \in 1..Len(before)
  BY LenProperties, ElementOfSeq
<1> DEFINE item == [before[p] EXCEPT !.text = text]
<1>2. item \in Items /\ item.id = before[p].id /\ item.text = text
      /\ (text = before[p].text => item = before[p])
  BY <1>1 DEF Items
<1>3. after = [before EXCEPT ![p] = item]
  OBVIOUS
<1> HIDE DEF item
<1>4. /\ after \in Seq(Items) /\ DOMAIN after = DOMAIN before /\ after[p] = item
      /\ \A i \in DOMAIN before : i # p => after[i] = before[i]
  BY <1>1, <1>2, <1>3, ExceptSeq
<1>5. text = before[p].text => after = before
  <2>1. PICK n \in Nat : before \in [1..n -> Items]
    BY SeqDef
  <2> QED
    BY <1>2, <1>3, <2>1
<1> QED
  BY <1>1, <1>2, <1>4, <1>5

\* The links of the replaced text make way for one to the fact behind the new text.
LEMMA AcceptedEvidenceHolds ==
  ASSUME NEW before \in Seq(Items), NEW links, EvidenceHolds(before, links),
         NEW p \in DOMAIN before, NEW text \in Texts,
         NEW after, after = [before EXCEPT ![p].text = text],
         NEW link, link.bullet = before[p].id, link.end = Length[text],
         link.status = "confirmed", link.sourced, SupportsEntities(text, link.value),
         NEW new, new = (links \ LinksOf(links, before[p].id)) \cup {link}
  PROVE  EvidenceHolds(after, new)
<1>1. /\ DOMAIN after = DOMAIN before
      /\ after[p].id = before[p].id /\ after[p].text = text
      /\ \A i \in DOMAIN before : i # p => after[i] = before[i]
  BY ReplacedText
<1>2. \A i \in DOMAIN before : after[i].id = before[i].id
  BY <1>1
<1>3. UniqueBullets(before)
  BY DEF EvidenceHolds, Covered
<1>4. UniqueBullets(after)
  BY <1>1, <1>2, <1>3 DEF UniqueBullets
<1>5. LinksOf(new, before[p].id) = {link}
  BY DEF LinksOf
<1>6. ASSUME NEW i \in DOMAIN before, i # p
      PROVE  LinksOf(new, before[i].id) = LinksOf(links, before[i].id)
  <2>1. before[i].id # before[p].id
    BY <1>3, <1>6 DEF UniqueBullets
  <2> QED
    BY <2>1 DEF LinksOf
<1>7. ASSUME NEW l \in new
      PROVE  \E i \in DOMAIN after : after[i].id = l.bullet
  <2>1. CASE l = link
    BY <1>1, <2>1
  <2>2. CASE l \in links
    BY <1>1, <1>2, <2>2 DEF EvidenceHolds, Covered
  <2> QED
    BY <2>1, <2>2
<1>8. ASSUME NEW i \in DOMAIN after
      PROVE  /\ LinksOf(new, after[i].id) # {}
             /\ \A l \in LinksOf(new, after[i].id) :
                  /\ l.end = Length[after[i].text]
                  /\ l.status = "confirmed" /\ l.sourced
                  /\ SupportsEntities(after[i].text, l.value)
  <2>1. CASE i = p
    BY <1>1, <1>5, <2>1
  <2>2. CASE i # p
    <3>1. i \in DOMAIN before /\ after[i] = before[i]
          /\ LinksOf(new, before[i].id) = LinksOf(links, before[i].id)
      BY <1>1, <1>6, <2>2
    <3>2. /\ LinksOf(links, before[i].id) # {}
          /\ \A l \in LinksOf(links, before[i].id) :
               /\ l.end = Length[before[i].text]
               /\ l.status = "confirmed" /\ l.sourced
               /\ SupportsEntities(before[i].text, l.value)
      BY <3>1 DEF EvidenceHolds, Covered
    <3> QED
      BY <3>1, <3>2
  <2> QED
    BY <2>1, <2>2
<1>9. Covered(after, new)
  BY <1>4, <1>7, <1>8 DEF Covered
<1>10. \A i \in DOMAIN after : \A l \in LinksOf(new, after[i].id) :
         /\ l.status = "confirmed" /\ l.sourced
         /\ SupportsEntities(after[i].text, l.value)
  <2> SUFFICES ASSUME NEW i \in DOMAIN after, NEW l \in LinksOf(new, after[i].id)
               PROVE  /\ l.status = "confirmed" /\ l.sourced
                      /\ SupportsEntities(after[i].text, l.value)
    OBVIOUS
  <2>1. \A m \in LinksOf(new, after[i].id) :
          /\ m.end = Length[after[i].text]
          /\ m.status = "confirmed" /\ m.sourced
          /\ SupportsEntities(after[i].text, m.value)
    BY <1>8
  <2> QED
    BY <2>1
<1> QED
  BY <1>9, <1>10 DEF EvidenceHolds

\* What is known of a suggestion that is decided, and of the text it is decided to.
LEMMA DecidedText ==
  ASSUME HistoryInv, FactsInv, DecisionsInv,
         NEW key, NEW s \in DOMAIN suggestions, NEW decision \in Decisions,
         NEW edited, edited \in IF decision = "edit" THEN Texts ELSE {None},
         Decide(key, s, decision, edited)
  PROVE  LET row    == suggestions[s]
             before == versions[Len(versions)].snapshot
             p      == row.position
             text   == NewText(row, decision, edited, before[p].text)
         IN  /\ row \in SuggestionRow
             /\ Len(versions) \in DOMAIN versions /\ Len(versions) > 0
             /\ before \in Seq(Items) /\ p \in DOMAIN before
             /\ before[p].id \in Bullets /\ before[p].text \in Texts
             /\ text \in Texts
             /\ <<row.status, decision>> \in Decidable
             /\ decision # "revert" => before[p].text = row.original
             /\ decision = "ignore" => text = before[p].text
             /\ decision \in {"accept", "edit"} =>
                  /\ row.fact \in Facts /\ facts[row.fact] \in FactRow
                  /\ facts[row.fact].status = "confirmed" /\ facts[row.fact].sourced
                  /\ SupportsEntities(text, facts[row.fact].value)
                  /\ <<row.fact, facts[row.fact].value>> \in vouched
             /\ RecordDecision(Request(<<"decide", s, decision>>, key, edited),
                               s, decision, before[p].id, text)
<1> DEFINE row    == suggestions[s]
           before == versions[Len(versions)].snapshot
           p      == row.position
           text   == NewText(row, decision, edited, before[p].text)
<1>1. /\ <<row.status, decision>> \in Decidable
      /\ p \in DOMAIN before
      /\ TextUnchanged(row, decision, before[p].text)
      /\ decision \in {"accept", "edit"} => FactsBack(row, text)
      /\ RecordDecision(Request(<<"decide", s, decision>>, key, edited),
                        s, decision, before[p].id, text)
  BY HistoryIs DEF Decide
<1>2. row \in SuggestionRow /\ suggestions # <<>>
  BY LenProperties, ElementOfSeq DEF DecisionsInv
<1>3. Len(versions) \in DOMAIN versions /\ Len(versions) > 0
  <2>1. versions # <<>>
    BY <1>2 DEF DecisionsInv
  <2>2. Len(versions) # 0
    BY <2>1, EmptySeq DEF HistoryInv
  <2> QED
    BY <2>2, HistoryIs
<1>4. before \in Seq(Items)
  BY <1>3, VersionIs DEF VersionTyped
<1>5. before[p].id \in Bullets /\ before[p].text \in Texts
  <2>1. before[p] \in Items
    BY <1>1, <1>4, LenProperties, ElementOfSeq
  <2> QED
    BY <2>1 DEF Items
<1>6. text \in Texts /\ (decision = "ignore" => text = before[p].text)
  <2>1. /\ decision = "accept" => text = row.suggested
        /\ decision = "edit" => text = edited
        /\ decision = "ignore" => text = before[p].text
        /\ decision = "revert" => text = row.original
    BY DEF NewText
  <2>2. row.suggested \in Texts /\ row.original \in Texts
    BY <1>2 DEF SuggestionRow
  <2> HIDE DEF text
  <2> QED
    BY <1>5, <2>1, <2>2 DEF Decisions
<1>7. decision # "revert" => before[p].text = row.original
  BY <1>1 DEF TextUnchanged
<1> HIDE DEF text
<1>8. ASSUME decision \in {"accept", "edit"}
      PROVE  /\ row.fact \in Facts /\ facts[row.fact] \in FactRow
             /\ facts[row.fact].status = "confirmed" /\ facts[row.fact].sourced
             /\ SupportsEntities(text, facts[row.fact].value)
             /\ <<row.fact, facts[row.fact].value>> \in vouched
  <2>1. FactsBack(row, text)
    BY <1>1, <1>8
  <2>2. row.fact # None
    BY <2>1 DEF FactsBack, SuggestionClaims
  <2>3. row.fact \in Facts
    BY <1>2, <2>2 DEF SuggestionRow
  <2>4. PolicyAllows(text, row.fact)
    BY <2>1, <2>2 DEF FactsBack, SuggestionClaims
  <2>5. /\ Confirmed(row.fact) /\ facts[row.fact].sourced
        /\ <<text, facts[row.fact].value>> \in Supports
    BY <2>4, VouchesAssumption DEF PolicyAllows
  <2> QED
    BY <2>3, <2>5 DEF Confirmed, Exists, FactsInv, SupportsEntities
<1> QED
  BY <1>1, <1>2, <1>3, <1>4, <1>5, <1>6, <1>7, <1>8 DEF text

\* A decision makes a version that fits, and sets the status of its suggestion.
LEMMA DecideEffect ==
  ASSUME HistoryInv, FactsInv, DecisionsInv, EvidenceWasConfirmed,
         NEW key, NEW s \in DOMAIN suggestions, NEW decision \in Decisions,
         NEW edited, edited \in IF decision = "edit" THEN Texts ELSE {None},
         Decide(key, s, decision, edited)
  PROVE  /\ UNCHANGED factVars
         /\ <<suggestions[s].status, decision>> \in Decidable
         /\ suggestions' = [suggestions EXCEPT ![s].status = StatusAfter[decision]]
         /\ \E row : Grown(row) /\ RowFits(row) /\ row.via = decision /\ row.source = s
<1> DEFINE head   == Len(versions)
           decided == suggestions[s]
           before == versions[head].snapshot
           p      == decided.position
           text   == NewText(decided, decision, edited, before[p].text)
           req    == Request(<<"decide", s, decision>>, key, edited)
           after  == [before EXCEPT ![p].text = text]
           links  == EvidenceAfter(decided, decision, before[p].id, text)
           row    == NewRow(req, <<>>, decision, s, after, links)
<1>1. /\ decided \in SuggestionRow
      /\ head \in DOMAIN versions /\ head > 0
      /\ before \in Seq(Items) /\ p \in DOMAIN before
      /\ before[p].id \in Bullets /\ before[p].text \in Texts
      /\ text \in Texts
      /\ <<decided.status, decision>> \in Decidable
      /\ decision # "revert" => before[p].text = decided.original
      /\ decision = "ignore" => text = before[p].text
      /\ decision \in {"accept", "edit"} =>
           /\ decided.fact \in Facts /\ facts[decided.fact] \in FactRow
           /\ facts[decided.fact].status = "confirmed" /\ facts[decided.fact].sourced
           /\ SupportsEntities(text, facts[decided.fact].value)
           /\ <<decided.fact, facts[decided.fact].value>> \in vouched
      /\ RecordDecision(req, s, decision, before[p].id, text)
  BY DecidedText
<1> HIDE DEF text
<1>2. /\ AppendVersion(req, <<>>, decision, s, after, links)
      /\ suggestions' = [suggestions EXCEPT ![s].status = StatusAfter[decision]]
  BY <1>1, HistoryIs DEF RecordDecision
<1>3. /\ after \in Seq(Items) /\ DOMAIN after = DOMAIN before /\ after[p].text = text
      /\ \A i \in DOMAIN before : i # p => after[i] = before[i]
      /\ text = before[p].text => after = before
  <2>1. after = [before EXCEPT ![p].text = text]
    OBVIOUS
  <2> HIDE DEF after, before, p
  <2> QED
    BY <1>1, <2>1, ReplacedText
<1> DEFINE old  == versions[head].links
           link == Link(before[p].id, ClaimEnd[text], decided.fact)
<1>4. old \in SUBSET LinkRow /\ \A l \in old : <<l.fact, l.value>> \in vouched
  BY <1>1, VersionIs DEF VersionTyped, EvidenceWasConfirmed
<1>5. ASSUME decision \in {"accept", "edit"}
      PROVE  /\ link \in LinkRow /\ link.bullet = before[p].id /\ link.end = ClaimEnd[text]
             /\ link.status = "confirmed" /\ link.sourced
             /\ SupportsEntities(text, link.value)
             /\ <<link.fact, link.value>> \in vouched
  <2>1. ClaimEnd[text] \in Nat
    BY <1>1, ClaimEndAssumption, LengthAssumption
  <2> QED
    BY <1>1, <1>5, <2>1 DEF Link, LinkRow, FactRow
<1>6. links = IF decision \in {"accept", "edit"}
              THEN (old \ LinksOf(old, before[p].id)) \cup {link} ELSE old
  BY HistoryIs DEF EvidenceAfter
<1> HIDE DEF link, links, after
<1>7. links \in SUBSET LinkRow /\ \A l \in links : <<l.fact, l.value>> \in vouched
  BY <1>4, <1>5, <1>6
<1>8. /\ row.parent = head /\ row.via = decision /\ row.author = <<>>
      /\ row.source = s /\ row.request = req /\ row.snapshot = after /\ row.links = links
      /\ DOMAIN row = {"parent", "via", "author", "source", "request", "snapshot", "links"}
  BY DEF NewRow
<1> HIDE DEF row
<1>9. s \in Nat
  BY LenProperties DEF DecisionsInv
<1>10. VersionTyped(row)
  BY <1>3, <1>7, <1>8, <1>9, HistoryIs DEF VersionTyped, Kinds
<1>11. RequestFits(row, head)
  BY <1>8, KindsApart DEF RequestFits, Request
<1>12. EvidencePassedOn(row)
  <2>1. ASSUME decision = "ignore", HoldsIn(head)
        PROVE  EvidenceHolds(after, links)
    <3>1. after = before /\ links = old
      BY <1>1, <1>3, <1>6, <2>1
    <3> QED
      BY <2>1, <3>1 DEF HoldsIn
  <2>2. ASSUME decision \in {"accept", "edit"}, HoldsIn(head), ClaimEnd[text] = Length[text]
        PROVE  EvidenceHolds(after, links)
    <3>1. /\ link.bullet = before[p].id /\ link.end = Length[text]
          /\ link.status = "confirmed" /\ link.sourced /\ SupportsEntities(text, link.value)
      BY <1>5, <2>2
    <3>2. links = (old \ LinksOf(old, before[p].id)) \cup {link}
      BY <1>6, <2>2
    <3>3. EvidenceHolds(before, old)
      BY <2>2 DEF HoldsIn
    <3>4. after = [before EXCEPT ![p].text = text]
      BY DEF after
    <3> HIDE DEF before, p, old
    <3> QED
      BY <1>1, <3>1, <3>2, <3>3, <3>4, AcceptedEvidenceHolds
  <2>3. row.snapshot[suggestions[row.source].position].text = text
    BY <1>3, <1>8
  <2> QED
    BY <1>8, <2>1, <2>2, <2>3, KindsApart DEF EvidencePassedOn
<1>13. OriginalReplaced(row)
  BY <1>1, <1>3, <1>8 DEF OriginalReplaced
<1>14. RowFits(row)
  BY <1>1, <1>7, <1>8, <1>10, <1>11, <1>12, <1>13, KindsApart DEF RowFits
<1>15. Grown(row) /\ UNCHANGED factVars
  BY <1>2, AppendVersionEffect DEF row
<1> QED
  BY <1>1, <1>2, <1>8, <1>14, <1>15

\* A suggestion is published after the others; nothing was decided on it.
LEMMA PublishEffect ==
  ASSUME HistoryInv, DecisionsInv, NEW v \in DOMAIN versions, NEW position \in Nat,
         NEW suggested \in Offers, NEW f \in Facts \cup {None},
         Publish(v, position, suggested, f)
  PROVE  \E row \in SuggestionRow :
           /\ row.status \in {"pending", "blocked"}
           /\ suggestions' \in Seq(SuggestionRow)
           /\ DOMAIN suggestions' = 1..(Len(suggestions) + 1)
           /\ suggestions'[Len(suggestions) + 1] = row
           /\ \A s \in DOMAIN suggestions : suggestions'[s] = suggestions[s]
           /\ UNCHANGED vars
<1> DEFINE row == [position |-> position, original |-> versions[v].snapshot[position].text,
                   suggested |-> suggested, fact |-> f,
                   status |-> IF f = None THEN "blocked" ELSE "pending"]
<1>1. /\ position \in DOMAIN versions[v].snapshot
      /\ suggestions' = Append(suggestions, row)
      /\ UNCHANGED vars
  BY DEF Publish
<1>2. versions[v].snapshot[position] \in Items
  <2>1. versions[v].snapshot \in Seq(Items)
    BY VersionIs DEF VersionTyped
  <2> QED
    BY <1>1, <2>1, LenProperties, ElementOfSeq
<1>3. row \in SuggestionRow /\ row.status \in {"pending", "blocked"}
  BY <1>2, OffersAssumption DEF SuggestionRow, Items
<1> HIDE DEF row
<1>4. suggestions \in Seq(SuggestionRow)
  BY DEF DecisionsInv
<1> QED
  BY <1>1, <1>3, <1>4, AppendProperties, LenProperties

-------------------------------------------------------------------------------
(* Every step *)

\* The suggestions there are keep the place and the text they were made for.
SuggestionsKept ==
  \A s \in DOMAIN suggestions :
    /\ s \in DOMAIN suggestions'
    /\ suggestions'[s].position = suggestions[s].position
    /\ suggestions'[s].original = suggestions[s].original

HistoryParts ==
  HistoryInv /\ RequestsInv /\ EvidenceWasConfirmed /\ EvidenceCoversText
    /\ DecisionsReplaceOriginals

\* A version says the same of what it rests on after a step that keeps it.
LEMMA RestsOnKept ==
  ASSUME HistoryInv, SuggestionsKept, NEW v \in DOMAIN versions, versions'[v] = versions[v],
         NEW others, RestsOn(v, others)'
  PROVE  RestsOn(v, others \cap DOMAIN versions)
<1>1. /\ versions[v].parent = v - 1 /\ v \in 1..Len(versions)
      /\ versions[v].via = "restore" => versions[v].source \in 1..(v - 1)
      /\ versions[v].via \in Decisions => versions[v].source \in DOMAIN suggestions /\ v > 1
  BY VersionIs DEF HistoryInv
<1>2. /\ versions[v].via = "restore" => versions[v].source \in DOMAIN versions
      /\ versions[v].via \in Decisions => versions[v].parent \in DOMAIN versions
  BY <1>1, HistoryIs
<1>3. versions[v].via \in Decisions =>
        suggestions'[versions[v].source].position = suggestions[versions[v].source].position
  BY <1>1 DEF SuggestionsKept
<1> QED
  BY <1>2, <1>3, KindsApart DEF RestsOn

LEMMA HistoryKept ==
  ASSUME HistoryParts, UNCHANGED resumeVars, vouched \subseteq vouched', SuggestionsKept
  PROVE  HistoryParts'
<1> USE DEF HistoryParts
<1>1. UNCHANGED <<versions, resume, shown>>
  BY DEF resumeVars
<1>2. HistoryInv'
  BY <1>1 DEF HistoryInv, SuggestionsKept
<1>3. RequestsInv'
  BY <1>1 DEF RequestsInv
<1>4. EvidenceWasConfirmed'
  BY <1>1 DEF EvidenceWasConfirmed
<1>5. EvidenceCoversText'
  <2> SUFFICES ASSUME NEW unbroken \in SUBSET DOMAIN versions',
                      \A v \in unbroken : RestsOn(v, unbroken)'
               PROVE  \A v \in unbroken : EvidenceHolds(versions[v].snapshot, versions[v].links)'
    BY DEF EvidenceCoversText
  <2>1. \A v \in unbroken : RestsOn(v, unbroken \cap DOMAIN versions)
    BY <1>1, RestsOnKept
  <2>2. unbroken \cap DOMAIN versions = unbroken
    BY <1>1
  <2> QED
    BY <1>1, <2>1, <2>2 DEF EvidenceCoversText
<1>6. DecisionsReplaceOriginals'
  <2> SUFFICES ASSUME NEW v \in DOMAIN versions, versions[v].via \in {"accept", "edit", "ignore"}
               PROVE  LET row    == suggestions'[versions[v].source]
                          before == versions[versions[v].parent].snapshot
                      IN  /\ before[row.position].text = row.original
                          /\ \A i \in DOMAIN before \ {row.position} :
                               versions[v].snapshot[i] = before[i]
    BY <1>1 DEF DecisionsReplaceOriginals
  <2>1. versions[v].source \in DOMAIN suggestions
    BY KindsApart DEF HistoryInv
  <2> QED
    BY <2>1 DEF DecisionsReplaceOriginals, SuggestionsKept
<1> QED
  BY <1>2, <1>3, <1>4, <1>5, <1>6

LEMMA HistoryGrows ==
  ASSUME HistoryParts, NEW row, Grown(row), RowFits(row), UNCHANGED factVars, SuggestionsKept
  PROVE  HistoryParts'
<1> DEFINE new == Len(versions) + 1
<1> USE DEF HistoryParts
<1>1. /\ versions' \in Seq({versions'[v] : v \in DOMAIN versions'})
      /\ Len(versions') = new /\ new <= MaxVersions /\ DOMAIN versions' = 1..new
      /\ versions'[new] = row
      /\ \A v \in DOMAIN versions : versions'[v] = versions[v]
      /\ resume' = [head |-> new, number |-> new]
      /\ shown' = {<<n, n>> : n \in 0..new}
  BY DEF Grown
<1>2. /\ Len(versions) \in Nat /\ DOMAIN versions = 1..Len(versions)
      /\ new \notin DOMAIN versions /\ new - 1 = Len(versions)
  BY HistoryIs
<1>3. \A v \in DOMAIN versions' : v \in DOMAIN versions \/ v = new
  BY <1>1, <1>2
<1>4. UNCHANGED vouched
  BY DEF factVars
<1>5. ASSUME NEW v \in DOMAIN versions'
      PROVE  /\ VersionTyped(versions'[v])
             /\ versions'[v].parent = v - 1
             /\ versions'[v].via \in {"save", "restore"} => versions'[v].author = <<v - 1, v - 1>>
             /\ versions'[v].via = "restore" => versions'[v].source \in 1..(v - 1)
             /\ versions'[v].via \in Decisions => versions'[v].source \in DOMAIN suggestions' /\ v > 1
  <2>1. CASE v \in DOMAIN versions
    BY <1>1, <2>1 DEF HistoryInv, SuggestionsKept
  <2>2. CASE v = new
    BY <1>1, <1>2, <2>2 DEF RowFits, SuggestionsKept
  <2> QED
    BY <1>3, <2>1, <2>2
<1>6. HistoryInv'
  BY <1>1, <1>5 DEF HistoryInv
<1>7. RequestsInv'
  <2> SUFFICES ASSUME NEW v \in DOMAIN versions' PROVE RequestFits(versions'[v], v - 1)
    BY DEF RequestsInv
  <2>1. CASE v \in DOMAIN versions
    BY <1>1, <2>1 DEF RequestsInv
  <2>2. CASE v = new
    BY <1>1, <1>2, <2>2 DEF RowFits
  <2> QED
    BY <1>3, <2>1, <2>2
<1>8. EvidenceWasConfirmed'
  BY <1>1, <1>3, <1>4 DEF EvidenceWasConfirmed, RowFits
<1>9. EvidenceCoversText'
  <2> SUFFICES ASSUME NEW unbroken \in SUBSET DOMAIN versions',
                      \A v \in unbroken : RestsOn(v, unbroken)',
                      NEW v \in unbroken
               PROVE  EvidenceHolds(versions'[v].snapshot, versions'[v].links)
    BY DEF EvidenceCoversText
  <2> DEFINE older == unbroken \cap DOMAIN versions
  <2>1. \A u \in older : RestsOn(u, older)
    BY <1>1, RestsOnKept
  <2>2. \A u \in older : HoldsIn(u)
    BY <2>1 DEF EvidenceCoversText, HoldsIn
  <2>3. CASE v \in DOMAIN versions
    BY <1>1, <2>2, <2>3 DEF HoldsIn
  <2>4. CASE v = new
    <3>1. /\ row.via = "restore" => row.source \in DOMAIN versions
          /\ row.via \in Decisions => row.parent \in DOMAIN versions
                                     /\ row.source \in DOMAIN suggestions
      BY <1>2 DEF RowFits
    <3>2. \/ row.via = "save"
          \/ row.via = "restore" /\ row.source \in older
          \/ row.via = "ignore" /\ row.parent \in older
          \/ /\ row.via \in {"accept", "edit"} /\ row.parent \in older
             /\ LET text == row.snapshot[suggestions[row.source].position].text
                IN  ClaimEnd[text] = Length[text]
      <4>1. versions'[v] = row /\ RestsOn(v, unbroken)'
        BY <1>1, <2>4
      <4>2. row.via \in Decisions =>
              suggestions'[row.source].position = suggestions[row.source].position
        BY <3>1 DEF SuggestionsKept
      <4> QED
        BY <3>1, <4>1, <4>2, KindsApart DEF RestsOn
    <3> QED
      BY <1>1, <2>2, <2>4, <3>2 DEF RowFits, EvidencePassedOn
  <2> QED
    BY <1>3, <2>3, <2>4
<1>10. DecisionsReplaceOriginals'
  <2> SUFFICES ASSUME NEW v \in DOMAIN versions',
                      versions'[v].via \in {"accept", "edit", "ignore"}
               PROVE  LET decided == suggestions'[versions'[v].source]
                          before  == versions'[versions'[v].parent].snapshot
                      IN  /\ before[decided.position].text = decided.original
                          /\ \A i \in DOMAIN before \ {decided.position} :
                               versions'[v].snapshot[i] = before[i]
    BY DEF DecisionsReplaceOriginals
  <2>1. CASE v \in DOMAIN versions
    <3>1. /\ versions'[v] = versions[v] /\ versions[v].parent = v - 1 /\ v > 1
          /\ versions[v].source \in DOMAIN suggestions
      BY <1>1, <2>1, KindsApart DEF HistoryInv
    <3>2. v - 1 \in DOMAIN versions
      BY <1>2, <2>1, <3>1
    <3> QED
      BY <1>1, <2>1, <3>1, <3>2 DEF DecisionsReplaceOriginals, SuggestionsKept
  <2>2. CASE v = new
    <3>1. /\ versions'[v] = row /\ row.parent \in DOMAIN versions
          /\ row.source \in DOMAIN suggestions
      BY <1>1, <1>2, <2>2, KindsApart DEF RowFits
    <3> QED
      BY <1>1, <3>1 DEF RowFits, OriginalReplaced, SuggestionsKept
  <2> QED
    BY <1>3, <2>1, <2>2
<1> QED
  BY <1>6, <1>7, <1>8, <1>9, <1>10

\* Facts change in no other way than FactStep allows.
LEMMA FactStepEffect ==
  ASSUME FactsInv, FactStep
  PROVE  /\ FactsInv' /\ vouched \subseteq vouched'
         /\ UNCHANGED resumeVars
<1>1. PICK f \in Facts, row \in FactRow : SetFact(f, row)
  <2>1. PICK f \in Facts :
          \/ \E value \in Values, status \in FactStatuses, sourced \in BOOLEAN :
               CreateFact(f, value, status, sourced)
          \/ \E value \in Values : UpdateFact(f, value)
          \/ \E status \in FactStatuses : SetStatus(f, status)
    BY DEF FactStep
  <2>2. ASSUME NEW value \in Values, NEW status \in FactStatuses, NEW sourced \in BOOLEAN,
               CreateFact(f, value, status, sourced)
        PROVE  \E row \in FactRow : SetFact(f, row)
    <3>1. [value |-> value, status |-> status, sourced |-> sourced] \in FactRow
      BY DEF FactRow
    <3> QED
      BY <2>2, <3>1 DEF CreateFact
  <2>3. ASSUME NEW value \in Values, UpdateFact(f, value)
        PROVE  \E row \in FactRow : SetFact(f, row)
    <3>1. facts[f] \in FactRow
      BY <2>3 DEF UpdateFact, Exists, FactsInv
    <3>2. [facts[f] EXCEPT !.value = value, !.status = "unconfirmed"] \in FactRow
      BY <3>1 DEF FactRow, FactStatuses
    <3> QED
      BY <2>3, <3>2 DEF UpdateFact
  <2>4. ASSUME NEW status \in FactStatuses, SetStatus(f, status)
        PROVE  \E row \in FactRow : SetFact(f, row)
    <3>1. facts[f] \in FactRow
      BY <2>4 DEF SetStatus, Exists, FactsInv
    <3>2. [facts[f] EXCEPT !.status = status] \in FactRow
      BY <3>1 DEF FactRow
    <3> QED
      BY <2>4, <3>2 DEF SetStatus
  <2> QED
    BY <2>1, <2>2, <2>3, <2>4
<1>2. /\ facts' = [facts EXCEPT ![f] = row]
      /\ vouched' = IF row.status = "confirmed" THEN vouched \cup {<<f, row.value>>} ELSE vouched
      /\ UNCHANGED resumeVars
  BY <1>1 DEF SetFact
<1>3. facts' \in [Facts -> FactRow \cup {None}] /\ facts'[f] = row
      /\ \A g \in Facts : g # f => facts'[g] = facts[g]
  BY <1>2 DEF FactsInv
<1>4. vouched \subseteq vouched'
  BY <1>2
<1>5. ASSUME NEW g \in Facts, Confirmed(g)'
      PROVE  <<g, facts'[g].value>> \in vouched'
  <2>1. CASE g = f
    BY <1>2, <1>3, <1>5, <2>1 DEF Confirmed
  <2>2. CASE g # f
    BY <1>3, <1>4, <1>5, <2>2 DEF Confirmed, Exists, FactsInv
  <2> QED
    BY <2>1, <2>2
<1> QED
  BY <1>2, <1>3, <1>4, <1>5 DEF FactsInv

LEMMA StepCases ==
  ASSUME [SuggestionsNext]_suggestionVars
  PROVE  \/ FactStep /\ UNCHANGED suggestions
         \/ \E key \in Keys, author \in shown, snapshot \in Snapshots,
              evidence \in [Bullets -> Facts] :
              Save(key, author, snapshot, evidence) /\ UNCHANGED suggestions
         \/ \E key \in Keys, author \in shown, source \in DOMAIN versions :
              Restore(key, author, source) /\ UNCHANGED suggestions
         \/ \E v \in DOMAIN versions, position \in Nat, suggested \in Offers,
              f \in Facts \cup {None} : Publish(v, position, suggested, f)
         \/ \E key \in Keys, s \in DOMAIN suggestions, decision \in Decisions :
              \E edited \in IF decision = "edit" THEN Texts ELSE {None} :
                Decide(key, s, decision, edited)
         \/ UNCHANGED <<factVars, resumeVars, suggestions>>
BY DEF SuggestionsNext, VersionStep, ExpireRecord, suggestionVars, vars, factVars, resumeVars

\* Facts, and what was once confirmed.
LEMMA FactsKept ==
  ASSUME FactsInv, UNCHANGED factVars
  PROVE  FactsInv' /\ vouched \subseteq vouched'
BY DEF FactsInv, factVars, Confirmed, Exists

LEMMA MadeByKept ==
  ASSUME HistoryInv, NEW s,
         UNCHANGED versions \/ \E row : Grown(row) /\ ~(row.via \in Decisions /\ row.source = s)
  PROVE  MadeBy(s)' = MadeBy(s) /\ \A v \in MadeBy(s) : versions'[v] = versions[v]
<1>1. CASE UNCHANGED versions
  BY <1>1 DEF MadeBy
<1>2. CASE \E row : Grown(row) /\ ~(row.via \in Decisions /\ row.source = s)
  <2>1. PICK row : Grown(row) /\ ~(row.via \in Decisions /\ row.source = s)
    BY <1>2
  <2> DEFINE new == Len(versions) + 1
  <2>2. /\ DOMAIN versions' = DOMAIN versions \cup {new} /\ versions'[new] = row
        /\ \A v \in DOMAIN versions : versions'[v] = versions[v]
    BY <2>1, HistoryIs DEF Grown
  <2> HIDE DEF new
  <2> QED
    BY <2>1, <2>2 DEF MadeBy
<1> QED
  BY <1>1, <1>2

LEMMA DecidedKept ==
  ASSUME HistoryInv, NEW s, NEW status, DecidedAs(s, status),
         UNCHANGED versions \/ \E row : Grown(row) /\ ~(row.via \in Decisions /\ row.source = s)
  PROVE  DecidedAs(s, status)'
<1>1. MadeBy(s)' = MadeBy(s) /\ \A v \in MadeBy(s) : versions'[v] = versions[v]
  BY MadeByKept
<1>2. DOMAIN versions \subseteq DOMAIN versions'
  <2>1. ASSUME NEW row, Grown(row) PROVE DOMAIN versions \subseteq DOMAIN versions'
    BY <2>1, HistoryIs DEF Grown
  <2> QED
    BY <2>1
<1> QED
  BY <1>1, <1>2 DEF DecidedAs

\* A decision leads from a status to the one after it, and so does the history.
LEMMA DecidedNow ==
  ASSUME HistoryInv, NEW s \in DOMAIN suggestions, NEW decision \in Decisions,
         DecidedAs(s, suggestions[s].status), <<suggestions[s].status, decision>> \in Decidable,
         NEW row, Grown(row), row.via = decision, row.source = s
  PROVE  DecidedAs(s, StatusAfter[decision])'
<1> DEFINE new == Len(versions) + 1
           status == suggestions[s].status
<1>1. /\ DOMAIN versions' = DOMAIN versions \cup {new} /\ versions'[new] = row
      /\ new \notin DOMAIN versions
      /\ \A v \in DOMAIN versions : versions'[v] = versions[v]
      /\ \A v \in DOMAIN versions : v < new
  BY HistoryIs DEF Grown
<1> HIDE DEF new
<1>2. MadeBy(s)' = MadeBy(s) \cup {new}
  BY <1>1 DEF MadeBy
<1>3. CASE status \in {"pending", "blocked"}
  <2>1. decision \in {"accept", "edit", "ignore"} /\ MadeBy(s)' = {new}
    BY <1>2, <1>3 DEF Decidable, DecidedAs
  <2>2. StatusAfter[decision] \in {"accepted", "edited", "ignored"}
    BY <2>1 DEF StatusAfter
  <2> QED
    BY <1>1, <2>1, <2>2 DEF DecidedAs
<1>4. CASE status \in {"accepted", "edited", "ignored"}
  <2>1. decision = "revert" /\ StatusAfter[decision] = "reverted"
    BY <1>4 DEF Decidable, StatusAfter
  <2>2. PICK v \in DOMAIN versions : MadeBy(s) = {v} /\ StatusAfter[versions[v].via] = status
    BY <1>4 DEF DecidedAs
  <2>3. versions[v].via # "revert"
    BY <1>4, <2>2 DEF StatusAfter
  <2>4. MadeBy(s)' = {v, new} /\ v < new /\ v \in DOMAIN versions' /\ new \in DOMAIN versions'
        /\ versions'[v].via # "revert" /\ versions'[new].via = "revert"
    BY <1>1, <1>2, <2>1, <2>2, <2>3
  <2> QED
    BY <2>1, <2>4 DEF DecidedAs
<1>5. status \in {"pending", "blocked"} \/ status \in {"accepted", "edited", "ignored"}
  BY DEF Decidable
<1> QED
  BY <1>3, <1>4, <1>5

LEMMA DecisionsStep ==
  ASSUME HistoryParts, FactsInv, DecisionsInv, [SuggestionsNext]_suggestionVars
  PROVE  DecisionsInv' /\ SuggestionsKept
<1> USE DEF HistoryParts
<1>1. suggestions \in Seq(SuggestionRow) /\ DOMAIN suggestions = 1..Len(suggestions)
      /\ Len(suggestions) \in Nat
  BY LenProperties DEF DecisionsInv
<1>2. ASSUME UNCHANGED suggestions,
             UNCHANGED versions \/ \E row : Grown(row) /\ row.via \notin Decisions
      PROVE  DecisionsInv' /\ SuggestionsKept
  <2>1. \A s \in DOMAIN suggestions : DecidedAs(s, suggestions[s].status)'
    BY <1>2, DecidedKept DEF DecisionsInv
  <2>2. versions # <<>> => versions' # <<>>
    <3>1. CASE UNCHANGED versions
      BY <3>1
    <3>2. CASE \E row : Grown(row)
      <4>1. Len(versions') = Len(versions) + 1
        BY <3>2 DEF Grown
      <4> QED
        BY <4>1, HistoryIs, EmptySeq
    <3> QED
      BY <1>2, <3>1, <3>2
  <2> QED
    BY <1>2, <2>1, <2>2 DEF DecisionsInv, SuggestionsKept
<1>3. ASSUME NEW v \in DOMAIN versions, NEW position \in Nat, NEW suggested \in Offers,
             NEW f \in Facts \cup {None}, Publish(v, position, suggested, f)
      PROVE  DecisionsInv' /\ SuggestionsKept
  <2> DEFINE new == Len(suggestions) + 1
  <2>1. PICK row \in SuggestionRow :
          /\ row.status \in {"pending", "blocked"}
          /\ suggestions' \in Seq(SuggestionRow)
          /\ DOMAIN suggestions' = 1..new
          /\ suggestions'[new] = row
          /\ \A s \in DOMAIN suggestions : suggestions'[s] = suggestions[s]
          /\ UNCHANGED vars
    BY <1>3, PublishEffect
  <2>2. UNCHANGED versions /\ versions # <<>>
    <3>1. UNCHANGED versions
      BY <2>1 DEF vars
    <3> QED
      BY <3>1
  <2>3. DOMAIN suggestions' = DOMAIN suggestions \cup {new} /\ new \notin DOMAIN suggestions
    BY <1>1, <2>1
  <2> HIDE DEF new
  <2>4. MadeBy(new) = {}
    BY <2>3 DEF MadeBy, HistoryInv
  <2>5. ASSUME NEW s \in DOMAIN suggestions'
        PROVE  DecidedAs(s, suggestions[s].status)'
    <3>1. DecidedAs(s, suggestions'[s].status)
      <4>1. CASE s \in DOMAIN suggestions
        BY <2>1, <4>1 DEF DecisionsInv
      <4>2. CASE s = new
        BY <2>1, <2>4, <4>2 DEF DecidedAs
      <4> QED
        BY <2>3, <4>1, <4>2
    <3> QED
      BY <2>2, <3>1 DEF DecidedAs, MadeBy
  <2>6. DecisionsInv'
    BY <2>1, <2>2, <2>5 DEF DecisionsInv
  <2>7. SuggestionsKept
    BY <2>1, <2>3 DEF SuggestionsKept
  <2> QED
    BY <2>6, <2>7
<1>4. ASSUME NEW key \in Keys, NEW s \in DOMAIN suggestions, NEW decision \in Decisions,
             NEW edited \in IF decision = "edit" THEN Texts ELSE {None},
             Decide(key, s, decision, edited)
      PROVE  DecisionsInv' /\ SuggestionsKept
  <2>1. /\ <<suggestions[s].status, decision>> \in Decidable
        /\ suggestions' = [suggestions EXCEPT ![s].status = StatusAfter[decision]]
        /\ \E row : Grown(row) /\ row.via = decision /\ row.source = s
    BY <1>4, DecideEffect
  <2>2. PICK row : Grown(row) /\ row.via = decision /\ row.source = s
    BY <2>1
  <2> DEFINE decided == [suggestions[s] EXCEPT !.status = StatusAfter[decision]]
  <2>3. suggestions[s] \in SuggestionRow
    BY <1>1, ElementOfSeq
  <2>4. /\ decided \in SuggestionRow /\ decided.status = StatusAfter[decision]
        /\ decided.position = suggestions[s].position /\ decided.original = suggestions[s].original
    BY <2>3 DEF SuggestionRow
  <2>5. suggestions' = [suggestions EXCEPT ![s] = decided]
    BY <2>1
  <2> HIDE DEF decided
  <2>6. /\ suggestions' \in Seq(SuggestionRow) /\ DOMAIN suggestions' = DOMAIN suggestions
        /\ suggestions'[s] = decided
        /\ \A t \in DOMAIN suggestions : t # s => suggestions'[t] = suggestions[t]
    BY <1>1, <2>4, <2>5, ExceptSeq
  <2>7. ASSUME NEW t \in DOMAIN suggestions
        PROVE  DecidedAs(t, suggestions[t].status)'
    <3>1. DecidedAs(t, suggestions[t].status)
      BY DEF DecisionsInv
    <3>2. CASE t = s
      <4>1. DecidedAs(s, StatusAfter[decision])'
        BY <2>1, <2>2, <3>1, <3>2, DecidedNow
      <4>2. suggestions'[t].status = StatusAfter[decision]
        BY <2>4, <2>6, <3>2
      <4> QED
        BY <3>2, <4>1, <4>2 DEF DecidedAs
    <3>3. CASE t # s
      <4>1. suggestions'[t] = suggestions[t]
        BY <2>6, <3>3
      <4>2. \E r : Grown(r) /\ ~(r.via \in Decisions /\ r.source = t)
        BY <2>2, <3>3
      <4>3. \A status : DecidedAs(t, status) => DecidedAs(t, status)'
        BY <4>2, DecidedKept
      <4> QED
        BY <3>1, <4>1, <4>3 DEF DecidedAs
    <3> QED
      BY <3>2, <3>3
  <2>8. versions' # <<>>
    <3>1. Len(versions') = Len(versions) + 1
      BY <2>2 DEF Grown
    <3> QED
      BY <3>1, HistoryIs, EmptySeq
  <2>9. DecisionsInv'
    BY <2>6, <2>7, <2>8 DEF DecisionsInv
  <2>10. SuggestionsKept
    BY <2>4, <2>6 DEF SuggestionsKept
  <2> QED
    BY <2>9, <2>10
<1> QED
  <2>1. ASSUME FactStep, UNCHANGED suggestions PROVE DecisionsInv' /\ SuggestionsKept
    BY <1>2, <2>1, FactStepEffect DEF resumeVars
  <2>2. ASSUME NEW key \in Keys, NEW author \in shown, NEW snapshot \in Snapshots,
               NEW evidence \in [Bullets -> Facts],
               Save(key, author, snapshot, evidence), UNCHANGED suggestions
        PROVE  DecisionsInv' /\ SuggestionsKept
    BY <1>2, <2>2, SaveEffect, KindsApart DEF resumeVars
  <2>3. ASSUME NEW key \in Keys, NEW author \in shown, NEW source \in DOMAIN versions,
               Restore(key, author, source), UNCHANGED suggestions
        PROVE  DecisionsInv' /\ SuggestionsKept
    BY <1>2, <2>3, RestoreEffect, KindsApart
  <2>4. ASSUME UNCHANGED <<factVars, resumeVars, suggestions>>
        PROVE  DecisionsInv' /\ SuggestionsKept
    BY <1>2, <2>4 DEF resumeVars
  <2> QED
    BY <1>3, <1>4, <2>1, <2>2, <2>3, <2>4, StepCases

LEMMA SuggestionsInvInit == SuggestionsInit => SuggestionsInv
<1> SUFFICES ASSUME SuggestionsInit PROVE SuggestionsInv
  OBVIOUS
<1>1. /\ versions = <<>> /\ suggestions = <<>> /\ facts = [f \in Facts |-> None]
      /\ resume = [head |-> 0, number |-> 0] /\ shown = {<<0, 0>>}
  BY DEF SuggestionsInit, VersionsInit
<1>2. /\ versions \in Seq({versions[v] : v \in DOMAIN versions})
      /\ DOMAIN versions = {} /\ Len(versions) = 0
      /\ suggestions \in Seq(SuggestionRow) /\ DOMAIN suggestions = {}
  BY <1>1, EmptySeq
<1>3. 0..0 = {0}
  OBVIOUS
<1>4. HistoryInv
  BY <1>1, <1>2, <1>3, BoundsAssumption DEF HistoryInv
<1>5. FactsInv
  BY <1>1 DEF FactsInv, Confirmed, Exists
<1>6. DecisionsInv
  BY <1>1, <1>2 DEF DecisionsInv
<1> QED
  BY <1>2, <1>4, <1>5, <1>6
  DEF SuggestionsInv, RequestsInv, EvidenceWasConfirmed, EvidenceCoversText,
      DecisionsReplaceOriginals

LEMMA SuggestionsInvStep == SuggestionsInv /\ [SuggestionsNext]_suggestionVars => SuggestionsInv'
<1> SUFFICES ASSUME SuggestionsInv, [SuggestionsNext]_suggestionVars PROVE SuggestionsInv'
  OBVIOUS
<1>1. HistoryParts /\ FactsInv /\ DecisionsInv
  BY DEF SuggestionsInv, HistoryParts
<1>2. DecisionsInv' /\ SuggestionsKept
  BY <1>1, DecisionsStep
<1>3. ASSUME UNCHANGED factVars,
             UNCHANGED resumeVars \/ \E row : Grown(row) /\ RowFits(row)
      PROVE  HistoryParts' /\ FactsInv'
  BY <1>1, <1>2, <1>3, FactsKept, HistoryKept, HistoryGrows
<1>4. HistoryParts' /\ FactsInv'
  <2>1. ASSUME FactStep PROVE HistoryParts' /\ FactsInv'
    BY <1>1, <1>2, <2>1, FactStepEffect, HistoryKept
  <2>2. ASSUME NEW key \in Keys, NEW author \in shown, NEW snapshot \in Snapshots,
               NEW evidence \in [Bullets -> Facts], Save(key, author, snapshot, evidence)
        PROVE  HistoryParts' /\ FactsInv'
    BY <1>1, <1>3, <2>2, SaveEffect DEF HistoryParts
  <2>3. ASSUME NEW key \in Keys, NEW author \in shown, NEW source \in DOMAIN versions,
               Restore(key, author, source)
        PROVE  HistoryParts' /\ FactsInv'
    BY <1>1, <1>3, <2>3, RestoreEffect DEF HistoryParts
  <2>4. ASSUME NEW v \in DOMAIN versions, NEW position \in Nat, NEW suggested \in Offers,
               NEW f \in Facts \cup {None}, Publish(v, position, suggested, f)
        PROVE  HistoryParts' /\ FactsInv'
    BY <1>3, <2>4 DEF Publish, vars, factVars, resumeVars
  <2>5. ASSUME NEW key \in Keys, NEW s \in DOMAIN suggestions, NEW decision \in Decisions,
               NEW edited \in IF decision = "edit" THEN Texts ELSE {None},
               Decide(key, s, decision, edited)
        PROVE  HistoryParts' /\ FactsInv'
    BY <1>1, <1>3, <2>5, DecideEffect DEF HistoryParts
  <2>6. ASSUME UNCHANGED <<factVars, resumeVars, suggestions>> PROVE HistoryParts' /\ FactsInv'
    BY <1>3, <2>6
  <2> QED
    BY <2>1, <2>2, <2>3, <2>4, <2>5, <2>6, StepCases
<1> QED
  BY <1>2, <1>4 DEF SuggestionsInv, HistoryParts

-------------------------------------------------------------------------------
(* Theorems *)

\* The inductive invariant holds in every state: what the head, the requests, the evidence
\* and the decisions say of each other.
THEOREM SuggestionsCorrect == SuggestionsSpec => []SuggestionsInv
BY SuggestionsInvInit, SuggestionsInvStep, PTL DEF SuggestionsSpec

\* A save or a restore never replaces a head its author had not read, for any number of
\* devices, repeated requests and decisions in between (save_resume_version, restore).
THEOREM NoUpdateIsLost == SuggestionsSpec => []NoLostUpdate
<1>1. SuggestionsInv => NoLostUpdate
  BY DEF SuggestionsInv, HistoryInv, NoLostUpdate
<1> QED
  BY <1>1, SuggestionsCorrect, PTL

\* A request takes effect at most once although its record may expire: its base version, or
\* the status of the suggestion it decides, refuses it the second time.
THEOREM RequestsTakeEffectOnce == SuggestionsSpec => []EffectAtMostOnce
<1>1. SuggestionsInv => EffectAtMostOnce
  <2> SUFFICES ASSUME SuggestionsInv, NEW v \in DOMAIN versions, NEW w \in DOMAIN versions,
                      versions[v].request = versions[w].request
               PROVE  v = w
    BY DEF EffectAtMostOnce
  <2> USE DEF SuggestionsInv
  <2>1. /\ VersionTyped(versions[v]) /\ VersionTyped(versions[w]) /\ v \in Nat /\ w \in Nat
        /\ RequestFits(versions[v], v - 1) /\ RequestFits(versions[w], w - 1)
    BY VersionIs, HistoryIs DEF RequestsInv
  <2>2. /\ \A source, s, d : <<"save">> # <<"restore", source>> /\ <<"save">> # <<"decide", s, d>>
                            /\ <<"restore", source>> # <<"decide", s, d>>
    OBVIOUS
  <2>3. CASE versions[v].via = "save"
    BY <2>1, <2>2, <2>3, KindsApart DEF RequestFits, VersionTyped, Kinds
  <2>4. CASE versions[v].via = "restore"
    BY <2>1, <2>2, <2>4, KindsApart DEF RequestFits, VersionTyped, Kinds
  <2>5. CASE versions[v].via \in Decisions
    <3>1. versions[w].via \in Decisions
      BY <2>1, <2>2, <2>5 DEF RequestFits, VersionTyped, Kinds
    <3>2. versions[w].via = versions[v].via /\ versions[w].source = versions[v].source
      BY <2>1, <2>5, <3>1 DEF RequestFits
    <3> DEFINE s == versions[v].source
    <3>3. /\ s \in DOMAIN suggestions /\ v \in MadeBy(s) /\ w \in MadeBy(s)
          /\ DecidedAs(s, suggestions[s].status)
          /\ suggestions[s].status \in {"pending", "blocked", "accepted", "edited", "ignored",
                                        "reverted"}
      <4>1. s \in DOMAIN suggestions
        BY <2>5 DEF HistoryInv
      <4>2. suggestions[s] \in SuggestionRow
        BY <4>1, LenProperties, ElementOfSeq DEF DecisionsInv
      <4> QED
        BY <2>5, <3>1, <3>2, <4>1, <4>2
        DEF MadeBy, DecisionsInv, SuggestionRow, StatusAfter, Decisions
    <3> QED
      BY <3>2, <3>3 DEF DecidedAs
  <2> QED
    BY <2>1, <2>3, <2>4, <2>5 DEF VersionTyped, Kinds
<1> QED
  BY <1>1, SuggestionsCorrect, PTL

\* Every text rests on evidence its owner confirmed, and as long as no revert or shortened
\* claim breaks the chain, on evidence that covers it (resumes/evidence_projection.py,
\* _link_suggestion_evidence).
THEOREM EvidenceCorrect == SuggestionsSpec => []EvidenceStands
<1>1. SuggestionsInv => EvidenceStands
  BY DEF SuggestionsInv, EvidenceStands
<1> QED
  BY <1>1, SuggestionsCorrect, PTL

LEMMA TypesHold == SuggestionsInv => SuggestionsTypeOK
<1> SUFFICES ASSUME SuggestionsInv PROVE SuggestionsTypeOK
  OBVIOUS
<1> USE DEF SuggestionsInv
<1>1. facts \in [Facts -> FactRow \cup {None}] /\ suggestions \in Seq(SuggestionRow)
  BY DEF FactsInv, DecisionsInv
<1>2. resume \in ResumeRow
  BY HistoryIs DEF HistoryInv, ResumeRow
<1>3. ASSUME NEW v \in DOMAIN versions
      PROVE  /\ [c \in DOMAIN versions[v] \ {"request"} |-> versions[v][c]]
                  \in VersionRow({"save", "restore"} \cup Decisions)
             /\ versions[v].parent < v
  <2>1. VersionTyped(versions[v]) /\ versions[v].parent = v - 1 /\ v \in Nat
    BY VersionIs, HistoryIs
  <2> DEFINE row == [c \in DOMAIN versions[v] \ {"request"} |-> versions[v][c]]
  <2>2. DOMAIN versions[v] \ {"request"} = {"parent", "via", "author", "source", "snapshot", "links"}
    BY <2>1 DEF VersionTyped
  <2>3. row = [parent |-> versions[v].parent, via |-> versions[v].via,
               author |-> versions[v].author, source |-> versions[v].source,
               snapshot |-> versions[v].snapshot, links |-> versions[v].links]
    BY <2>2
  <2> HIDE DEF row
  <2>4. row \in VersionRow(Kinds)
    BY <2>1, <2>3 DEF VersionTyped, VersionRow, Items
  <2> QED
    BY <2>1, <2>4 DEF row, Kinds
<1> QED
  BY <1>1, <1>2, <1>3 DEF SuggestionsTypeOK

\* The decisions of the history are those the statuses tell of, and each replaced the text it
\* was made for and no other (suggestions/service.py: decide).
THEOREM DecisionsCorrect == SuggestionsSpec => []DecisionsStand
<1>1. SuggestionsInv => HistoryTellsDecisions
  <2> SUFFICES ASSUME SuggestionsInv, NEW s \in DOMAIN suggestions
               PROVE  LET status == suggestions[s].status IN
                      /\ Cardinality(MadeBy(s)) = CASE status \in {"pending", "blocked"} -> 0
                                                     [] status = "reverted" -> 2
                                                     [] OTHER -> 1
                      /\ MadeBy(s) # {} => \E v \in MadeBy(s) :
                           /\ StatusAfter[versions[v].via] = status
                           /\ \A w \in MadeBy(s) : w <= v
    BY DEF HistoryTellsDecisions, MadeBy
  <2> USE DEF SuggestionsInv
  <2> DEFINE status == suggestions[s].status
  <2>1. DecidedAs(s, status)
    BY DEF DecisionsInv
  <2>2. status \in {"pending", "blocked", "accepted", "edited", "ignored", "reverted"}
    <3>1. suggestions[s] \in SuggestionRow
      BY LenProperties, ElementOfSeq DEF DecisionsInv
    <3> QED
      BY <3>1 DEF SuggestionRow, StatusAfter, Decisions
  <2>3. DOMAIN versions \subseteq Nat
    BY HistoryIs
  <2>4. CASE status \in {"pending", "blocked"}
    BY <2>1, <2>4, FS_EmptySet DEF DecidedAs
  <2>5. CASE status \in {"accepted", "edited", "ignored"}
    <3>1. PICK v \in DOMAIN versions : MadeBy(s) = {v} /\ StatusAfter[versions[v].via] = status
      BY <2>1, <2>5 DEF DecidedAs
    <3>2. Cardinality(MadeBy(s)) = 1
      BY <3>1, FS_Singleton
    <3> QED
      BY <2>3, <2>5, <3>1, <3>2
  <2>6. CASE status = "reverted"
    <3>1. PICK v, w \in DOMAIN versions :
            v < w /\ MadeBy(s) = {v, w} /\ versions[w].via = "revert"
      BY <2>1, <2>6 DEF DecidedAs
    <3>2. v # w
      BY <2>3, <3>1
    <3>3. Cardinality(MadeBy(s)) = 2
      <4>1. IsFiniteSet({v}) /\ Cardinality({v}) = 1
        BY FS_Singleton
      <4>2. Cardinality({v} \cup {w}) = 1 + 1
        BY <3>2, <4>1, FS_AddElement
      <4>3. MadeBy(s) = {v} \cup {w}
        BY <3>1
      <4> QED
        BY <4>2, <4>3
    <3>4. StatusAfter[versions[w].via] = status
      BY <2>6, <3>1 DEF StatusAfter
    <3> QED
      BY <2>3, <2>6, <3>1, <3>3, <3>4
  <2> QED
    BY <2>2, <2>4, <2>5, <2>6
<1>2. SuggestionsInv => DecisionsStand
  BY <1>1, TypesHold DEF SuggestionsInv, DecisionsStand
<1> QED
  BY <1>2, SuggestionsCorrect, PTL

===============================================================================
