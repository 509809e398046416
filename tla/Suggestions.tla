----------------------------- MODULE Suggestions ------------------------------
(***************************************************************************)
(* Suggestions on the texts of a resume and the owner's decisions on them  *)
(* (suggestions/service.py), on top of the version history and the facts.  *)
(* A suggestion is published by a match analysis (Matching) against ONE    *)
(* version and names its text by position; it is decided later, against    *)
(* whatever the head of the resume has become.                             *)
(***************************************************************************)
EXTENDS ResumeVersions

CONSTANTS
  ClaimEnd,        \* where the claims of a text end: short of Length by its punctuation
  Vouches,         \* <<text, value>>: fact_policy_check finds no issue
  Offers,          \* the texts an analysis may suggest
  Edits,           \* <<suggested, edited>>: the edit holds the claims of the suggestion
  MaxSuggestions

ASSUME ClaimEndAssumption == \A t \in Texts : ClaimEnd[t] \in 1..Length[t]
ASSUME VouchesAssumption  == Vouches \subseteq Supports
ASSUME EditsAssumption    == Edits \subseteq Texts \X Texts
ASSUME OffersAssumption   == Offers \subseteq Texts

VARIABLE suggestions   \* the Suggestion rows in the order of their publication

suggestionVars == <<vars, suggestions>>

Decisions == {"accept", "edit", "ignore", "revert"}

\* The status a decision leads to.
StatusAfter ==
  [accept |-> "accepted", edit |-> "edited", ignore |-> "ignored", revert |-> "reverted"]

\* The decisions a status allows.
Decidable ==
  {<<"pending", "accept">>, <<"pending", "edit">>, <<"pending", "ignore">>,
   <<"blocked", "ignore">>, <<"accepted", "revert">>, <<"edited", "revert">>,
   <<"ignored", "revert">>}

SuggestionRow ==
  [position : Nat, original : Texts, suggested : Texts, fact : Facts \cup {None},
   status : {StatusAfter[d] : d \in Decisions} \cup {"pending", "blocked"}]

-------------------------------------------------------------------------------
\* fact_policy_check finds no issue: each claim of the text lies in it after the one before,
\* names facts that are there, confirmed and sourced, and says no more than they do.
PolicyAllows(text, f) ==
  /\ Confirmed(f) /\ facts[f].sourced
  /\ <<text, facts[f].value>> \in Vouches

\* The claims of a suggestion are read off its links; a blocked one has none.
SuggestionClaims(row) == {row.fact} \ {None}

\* _facts_still_current: locked with their sources, and as the claims were checked.
FactsStillCurrent(claims) == \A f \in claims : Confirmed(f) /\ facts[f].sourced

\* A fact that is evidence in version v and still stands as it was linked.
StillEvidence(v, f) ==
  \E l \in versions[v].links :
    /\ l.fact = f /\ l.status = "confirmed" /\ l.sourced
    /\ Confirmed(f) /\ facts[f].value = l.value

\* A text backed by a confirmed fact is offered as pending, any other as blocked.
Publish(v, position, suggested, f) ==
  /\ Len(suggestions) < MaxSuggestions
  /\ position \in DOMAIN versions[v].snapshot
  /\ f # None => StillEvidence(v, f) /\ PolicyAllows(suggested, f)
  /\ suggestions' = Append(suggestions,
       [position |-> position, original |-> versions[v].snapshot[position].text,
        suggested |-> suggested, fact |-> f,
        status |-> IF f = None THEN "blocked" ELSE "pending"])
  /\ UNCHANGED vars

-------------------------------------------------------------------------------
(* Deciding *)

\* Fault: the fact behind an accepted text is not looked at again.
FactsUnchecked(row, text) == row.fact # None

\* _confirmed_facts and fact_policy_check, at the time of the decision.
FactsBack(row, text) ==
  /\ SuggestionClaims(row) # {}
  /\ FactsStillCurrent(SuggestionClaims(row))
  /\ \A f \in SuggestionClaims(row) : PolicyAllows(text, f)

NewText(row, decision, edited, text) ==
  [accept |-> row.suggested, edit |-> edited, ignore |-> text, revert |-> row.original][decision]

\* _copy_evidence, and _link_suggestion_evidence for a text that was accepted.
EvidenceAfter(row, decision, bullet, text) ==
  IF decision \in {"accept", "edit"}
    THEN (versions[Current].links \ LinksOf(versions[Current].links, bullet))
           \cup {Link(bullet, ClaimEnd[text], row.fact)}
    ELSE versions[Current].links

\* Fault: the text is replaced whatever it has become.
AnyText(row, decision, text) == TRUE

\* SUGGESTION_BASE_CONFLICT unless the text is the original; a revert does not ask.
TextUnchanged(row, decision, text) == decision # "revert" => text = row.original

\* The version, its links, the SuggestionDecision and the status, in one transaction.
RecordDecision(req, s, decision, bullet, text) ==
  /\ AppendVersion(req, <<>>, decision, s,
                   [versions[Current].snapshot EXCEPT ![suggestions[s].position].text = text],
                   EvidenceAfter(suggestions[s], decision, bullet, text))
  /\ suggestions' = [suggestions EXCEPT ![s].status = StatusAfter[decision]]

Decide(key, s, decision, edited) ==
  LET row      == suggestions[s]
      req      == Request(<<"decide", s, decision>>, key, edited)
      snapshot == versions[Current].snapshot
  IN
  /\ Fresh(records, req)
  /\ <<row.status, decision>> \in Decidable
  /\ row.position \in DOMAIN snapshot                       \* _pointer_get
  /\ LET item == snapshot[row.position]
         text == NewText(row, decision, edited, item.text)
     IN
     /\ TextUnchanged(row, decision, item.text)
     /\ decision \in {"accept", "edit"} => FactsBack(row, text)
     /\ decision = "edit" => <<row.suggested, edited>> \in Edits
     /\ RecordDecision(req, s, decision, item.id, text)

-------------------------------------------------------------------------------
SuggestionsInit == VersionsInit /\ suggestions = <<>>

SuggestionsNext ==
  \/ (FactStep \/ VersionStep) /\ UNCHANGED suggestions
  \/ \E v \in DOMAIN versions, position \in 1..Cardinality(Bullets),
        suggested \in Offers, f \in Facts \cup {None} : Publish(v, position, suggested, f)
  \/ \E key \in Keys, s \in DOMAIN suggestions, decision \in Decisions :
       \E edited \in IF decision = "edit" THEN Texts ELSE {None} : Decide(key, s, decision, edited)

SuggestionsSpec == SuggestionsInit /\ [][SuggestionsNext]_suggestionVars

-------------------------------------------------------------------------------
(* Properties *)

\* The rows have their types (db/models.py: Fact, Resume, ResumeVersion, Suggestion).
SuggestionsTypeOK ==
  /\ facts \in [Facts -> FactRow \cup {None}]
  /\ resume \in ResumeRow
  /\ \A v \in DOMAIN versions :
       /\ [c \in DOMAIN versions[v] \ {"request"} |-> versions[v][c]]
            \in VersionRow({"save", "restore"} \cup Decisions)
       /\ versions[v].parent < v
  /\ suggestions \in Seq(SuggestionRow)

\* A save or a restore never replaces a head its author had not read, whatever saves,
\* decisions and repeated requests came in between (resumes/service.py:269).
NoLostUpdate ==
  \A v \in DOMAIN versions :
    versions[v].via \in {"save", "restore"} => versions[v].parent = versions[v].author[2]

\* A request takes effect at most once, however late it is repeated: where the record
\* has expired, the base version or the status of the suggestion refuses it.
EffectAtMostOnce ==
  \A v, w \in DOMAIN versions : versions[v].request = versions[w].request => v = w

\* Evidence is never made up: what any version, saved, copied, restored or accepted,
\* records of a fact is a value its owner had confirmed and given a source.
EvidenceWasConfirmed ==
  \A v \in DOMAIN versions : \A l \in versions[v].links : <<l.fact, l.value>> \in vouched

\* Version v was saved, or was made from one of the others without a revert and without
\* an acceptance of a text whose claims stop short of it.
RestsOn(v, others) ==
  LET row == versions[v] IN
  \/ row.via = "save"
  \/ row.via = "restore" /\ row.source \in others
  \/ row.via = "ignore" /\ row.parent \in others
  \/ /\ row.via \in {"accept", "edit"} /\ row.parent \in others
     /\ LET text == row.snapshot[suggestions[row.source].position].text
        IN  ClaimEnd[text] = Length[text]

\* The evidence of a version covers every bullet and supports its text, across saves,
\* restores and accepted suggestions, as long as nothing breaks the chain it rests on;
\* quality() finds no issue in it.
EvidenceCoversText ==
  \A unbroken \in SUBSET DOMAIN versions :
    (\A v \in unbroken : RestsOn(v, unbroken)) =>
      \A v \in unbroken : EvidenceHolds(versions[v].snapshot, versions[v].links)

\* Every text a resume ever showed stood on evidence its owner had confirmed.
EvidenceStands == EvidenceWasConfirmed /\ EvidenceCoversText

\* Every decision made one version, and the status of the suggestion tells the last one:
\* the history and the decisions agree (suggestions/service.py:309).
HistoryTellsDecisions ==
  \A s \in DOMAIN suggestions :
    LET made == {v \in DOMAIN versions : versions[v].via \in Decisions /\ versions[v].source = s}
        status == suggestions[s].status
    IN
    /\ Cardinality(made) = CASE status \in {"pending", "blocked"} -> 0
                             [] status = "reverted" -> 2
                             [] OTHER -> 1
    /\ made # {} => \E v \in made :
         /\ StatusAfter[versions[v].via] = status
         /\ \A w \in made : w <= v

\* A decision other than a revert replaces nothing but the text the suggestion was made
\* for: a text edited since, on any device, is kept (suggestions/service.py:243).
DecisionsReplaceOriginals ==
  \A v \in DOMAIN versions :
    versions[v].via \in {"accept", "edit", "ignore"} =>
      LET row    == suggestions[versions[v].source]
          before == versions[versions[v].parent].snapshot
      IN  /\ before[row.position].text = row.original
          /\ \A i \in DOMAIN before \ {row.position} : versions[v].snapshot[i] = before[i]

\* A decision does what the history says of it, and only that.
DecisionsStand == SuggestionsTypeOK /\ HistoryTellsDecisions /\ DecisionsReplaceOriginals

\* A saved text is never overwritten by a request of another device that had not seen
\* it (11-acceptance-and-evidence.md, FLOW-09): a revert puts the original back only
\* over the text its own suggestion had put there.
NoSilentOverwrite ==
  \A v \in DOMAIN versions :
    versions[v].via = "revert" =>
      LET row     == suggestions[versions[v].source]
          decided == CHOOSE w \in DOMAIN versions :
                       /\ versions[w].via \in Decisions \ {"revert"}
                       /\ versions[w].source = versions[v].source
      IN  versions[versions[v].parent].snapshot[row.position].text
            = versions[decided].snapshot[row.position].text
==============================================================================
