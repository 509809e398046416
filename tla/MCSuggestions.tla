---------------------------- MODULE MCSuggestions -----------------------------
(* A small instance of Suggestions: two bullets, which a device may reorder *)
(* while it rewrites one, and facts that support some of the texts.         *)
EXTENDS Suggestions, TLC

CONSTANTS b1, b2, f1, k1, k2

KeySymmetry == Permutations(Keys)

\* "led" is the original, "led more" a supported rewriting of it, "led more." the same
\* with a full stop no claim covers, "ran" the text of the other bullet.
MCLength   == [t \in Texts |-> CASE t = "led" -> 3 [] t = "led more" -> 8 [] t = "led more." -> 9 [] t = "ran" -> 3]
MCClaimEnd == [t \in Texts |-> IF t = "led more." THEN 8 ELSE MCLength[t]]
MCSupports == {<<"led", "v1">>, <<"led more", "v1">>, <<"led more.", "v1">>, <<"ran", "v1">>,
               <<"led more", "v2">>, <<"led more.", "v2">>, <<"ran", "v2">>}
MCVouches  == MCSupports
MCEdits    == {<<"led more", "led more">>, <<"led more", "led more.">>}

Item(b, t) == [id |-> b, text |-> t]
MCSnapshots == {<<Item(b1, "led"), Item(b2, "ran")>>,
                <<Item(b2, "ran"), Item(b1, "led more")>>}
==============================================================================
