---------------------------- MODULE ResumeVersions ----------------------------
(***************************************************************************)
(* The facts of one owner and the version history of one resume            *)
(* (facts/service.py, resumes/service.py, resumes/evidence_projection.py). *)
(* Several devices of the owner write at the same time, each with the      *)
(* version number it last read; a request may be repeated at any later     *)
(* time.  Each action is one database transaction, serialized on the row   *)
(* of the owner (Idempotency).  A refused request rolls back: no step.     *)
(*                                                                         *)
(* A text is its identity; its length tells ranges apart.  A claim is the  *)
(* range from the start of a bullet to `end`, vouched for by one fact.     *)
(***************************************************************************)
EXTENDS Naturals, Sequences, FiniteSets, Idempotency

CONSTANTS
  Facts, Values,   \* fact rows, and the values a fact may have
  Bullets, Texts,  \* bullet ids and the texts of a bullet
  Length,          \* Length[t] is len(t)
  Supports,        \* <<text, value>>: supports_high_risk_entities
  Snapshots,       \* the contents a device may save: sequences of [id, text]
  Keys,            \* the idempotency keys the devices use
  None,
  MaxVersions, MaxExpiries   \* bounds: rows of the history, records that expire

ASSUME BoundsAssumption   == MaxVersions \in Nat /\ MaxExpiries \in Nat
ASSUME LengthAssumption   == Length \in [Texts -> Nat \ {0}]
ASSUME SupportsAssumption == Supports \subseteq Texts \X Values

\* _validate_unique_bullet_ids
UniqueBullets(snapshot) ==
  \A i, j \in DOMAIN snapshot : snapshot[i].id = snapshot[j].id => i = j

ASSUME SnapshotAssumption ==
  \A s \in Snapshots : s \in Seq([id : Bullets, text : Texts]) /\ UniqueBullets(s)

VARIABLES
  facts,      \* Fact rows: [value, status, sourced] or None
  versions,   \* the ResumeVersion rows in the order of their creation
  resume,     \* [head, number]: head_version_id (0: none) and head_version
  records,    \* the idempotency records
  expiries,   \* how many of them have expired
  shown,      \* history: every <<head_version, head_version_id>> a device could read
  vouched     \* history: every <<fact, value>> that was confirmed with a source

factVars   == <<facts, vouched>>
resumeVars == <<versions, resume, shown>>
idemVars   == <<records, expiries>>
vars       == <<facts, versions, resume, records, expiries, shown, vouched>>

FactStatuses == {"unconfirmed", "confirmed", "rejected"}
FactRow      == [value : Values, status : FactStatuses, sourced : BOOLEAN]

ASSUME NoneAssumption == None \notin FactRow \cup Facts

\* The ClaimEvidenceSnapshot and BulletFactLink rows of a version.
LinkRow ==
  [bullet : Bullets, end : Nat, fact : Facts, value : Values, status : FactStatuses,
   sourced : BOOLEAN]

\* A version, its VersionOperation (via, author, source, request) and its links.
VersionRow(kinds) ==
  [parent : 0..MaxVersions, via : kinds, author : {<<>>} \cup ((0..MaxVersions) \X (0..MaxVersions)),
   source : Nat, snapshot : Seq([id : Bullets, text : Texts]), links : SUBSET LinkRow]

\* The head of the resume, by number and by row; 0 before the first version.
ResumeRow == [head : 0..MaxVersions, number : 0..MaxVersions]

-------------------------------------------------------------------------------
(* Facts *)

Exists(f)    == facts[f] # None
Confirmed(f) == Exists(f) /\ facts[f].status = "confirmed"

SetFact(f, row) ==
  /\ facts' = [facts EXCEPT ![f] = row]
  /\ vouched' = IF row.status = "confirmed" THEN vouched \cup {<<f, row.value>>} ELSE vouched
  /\ UNCHANGED <<resumeVars, idemVars>>

\* create_fact: a fact may be created confirmed only with a source.
CreateFact(f, value, status, sourced) ==
  /\ ~Exists(f)
  /\ status = "confirmed" => sourced
  /\ SetFact(f, [value |-> value, status |-> status, sourced |-> sourced])

\* update_fact with another value: the fact has to be confirmed again.
UpdateFact(f, value) ==
  /\ Exists(f) /\ facts[f].value # value
  /\ SetFact(f, [facts[f] EXCEPT !.value = value, !.status = "unconfirmed"])

\* set_status: only a fact with a source can be confirmed.
SetStatus(f, status) ==
  /\ Exists(f)
  /\ status = "confirmed" => facts[f].sourced
  /\ SetFact(f, [facts[f] EXCEPT !.status = status])

-------------------------------------------------------------------------------
\* supports_high_risk_entities: no number, name or rank of the text is missing in the fact.
SupportsEntities(text, value) == <<text, value>> \in Supports

(* Claim evidence: a link ties a bullet of a version to a fact, and keeps  *)
(* the value, the status and the source the fact had when it was linked.   *)

Link(bullet, end, f) ==
  [bullet |-> bullet, end |-> end, fact |-> f, value |-> facts[f].value,
   status |-> facts[f].status, sourced |-> facts[f].sourced]

LinksOf(links, bullet) == {l \in links : l.bullet = bullet}

\* _validate_claim_structure: every link has its bullet, every bullet is covered to its end.
Covered(snapshot, links) ==
  /\ UniqueBullets(snapshot)
  /\ \A l \in links : \E i \in DOMAIN snapshot : snapshot[i].id = l.bullet
  /\ \A i \in DOMAIN snapshot :
       /\ LinksOf(links, snapshot[i].id) # {}
       /\ \A l \in LinksOf(links, snapshot[i].id) : l.end = Length[snapshot[i].text]

\* _validate_persisted_evidence: and every link still tells why the text was accepted.
EvidenceHolds(snapshot, links) ==
  /\ Covered(snapshot, links)
  /\ \A i \in DOMAIN snapshot : \A l \in LinksOf(links, snapshot[i].id) :
       /\ l.status = "confirmed" /\ l.sourced
       /\ SupportsEntities(snapshot[i].text, l.value)

\* The links of a save: evidence names the fact behind the text of each bullet.
EvidenceLinks(snapshot, evidence) ==
  {Link(snapshot[i].id, Length[snapshot[i].text], evidence[snapshot[i].id]) : i \in DOMAIN snapshot}

\* _validate_claim_evidence: every claim rests on a confirmed fact with a source.
EvidenceAccepted(snapshot, evidence) ==
  \A i \in DOMAIN snapshot :
    LET f == evidence[snapshot[i].id] IN
      /\ Confirmed(f) /\ facts[f].sourced
      /\ SupportsEntities(snapshot[i].text, facts[f].value)

-------------------------------------------------------------------------------
(* Versions *)

Current == resume.head
Count   == Len(versions)

\* A new row on top of the head, with its VersionOperation and its links.
AppendVersion(req, author, via, source, snapshot, links) ==
  LET v == Count + 1 IN
  /\ Count < MaxVersions
  /\ versions' = Append(versions,
       [parent |-> Current, via |-> via, author |-> author, source |-> source,
        request |-> req, snapshot |-> snapshot, links |-> links])
  /\ resume' = [head |-> v, number |-> resume.number + 1]
  /\ shown' = shown \cup {<<resume.number + 1, v>>}
  /\ records' = Completed(records, req, v)
  /\ UNCHANGED <<factVars, expiries>>

\* Fault: the base version of the request is not compared.
AnyBase(base) == TRUE

\* The optimistic lock: RESUME_VERSION_CONFLICT unless the base is the head's number.
BaseIsHead(base) == base = resume.number

\* The parent is returned as it is: same content, same evidence, no new version.
SameAsHead(snapshot, links) ==
  /\ Current # 0
  /\ versions[Current].snapshot = snapshot /\ versions[Current].links = links

\* save_resume_version by a device that read number and head `author`.
Save(key, author, snapshot, evidence) ==
  LET req   == Request(<<"save">>, key, <<author[1], snapshot, evidence>>)
      links == EvidenceLinks(snapshot, evidence)
  IN
  /\ Fresh(records, req)
  /\ BaseIsHead(author[1])
  /\ EvidenceAccepted(snapshot, evidence)
  /\ \/ /\ SameAsHead(snapshot, links)
        /\ records' = Completed(records, req, Current)
        /\ UNCHANGED <<factVars, resumeVars, expiries>>
     \/ /\ ~SameAsHead(snapshot, links)
        /\ AppendVersion(req, author, "save", 0, snapshot, links)

\* restore: content and evidence of the source, the evidence as it was linked.
Restore(key, author, source) ==
  LET req == Request(<<"restore", source>>, key, author[1]) IN
  /\ Fresh(records, req)
  /\ BaseIsHead(author[1])
  /\ AppendVersion(req, author, "restore", source,
                   versions[source].snapshot, versions[source].links)

\* A record passes its expires_at; the next claim deletes it.
ExpireRecord(r) ==
  /\ expiries < MaxExpiries
  /\ records' = Expired(records, r)
  /\ expiries' = expiries + 1
  /\ UNCHANGED <<factVars, resumeVars>>

-------------------------------------------------------------------------------
VersionsInit ==
  /\ facts = [f \in Facts |-> None]
  /\ vouched = {}
  /\ versions = <<>>
  /\ resume = [head |-> 0, number |-> 0]
  /\ shown = {<<0, 0>>}
  /\ records = {}
  /\ expiries = 0

FactStep ==
  \E f \in Facts :
    \/ \E value \in Values, status \in FactStatuses, sourced \in BOOLEAN :
         CreateFact(f, value, status, sourced)
    \/ \E value \in Values : UpdateFact(f, value)
    \/ \E status \in FactStatuses : SetStatus(f, status)

VersionStep ==
  \/ \E key \in Keys, author \in shown :
       \/ \E snapshot \in Snapshots, evidence \in [Bullets -> Facts] :
            Save(key, author, snapshot, evidence)
       \/ \E source \in DOMAIN versions : Restore(key, author, source)
  \/ \E r \in records : ExpireRecord(r)
==============================================================================
