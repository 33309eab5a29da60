----------------------------- MODULE MCCatalog -----------------------------
(* Small instances of Catalog: the DATs of two publishers, with two or three games each. *)
EXTENDS Catalog

\* Publisher a's versions 1 and 2, and one without digits; publisher b's one; and a DAT the
\* newer rule puts into a's family.
Names    == {"a1", "a2", "an", "b1", "c2"}
Families == <<[d \in Names |-> IF d \in {"a1", "a2", "an"} THEN "a" ELSE d],
              [d \in Names |-> IF d \in {"a1", "a2", "an", "c2"} THEN "a" ELSE d]>>
Digits   == [d \in Names |-> CASE d \in {"a1", "b1"} -> 1 [] d \in {"a2", "c2"} -> 2 [] OTHER -> 0]

Rev(name, key, cloneof, sum, place, regions, revision, flags) ==
    [name |-> name, key |-> key, cloneof |-> cloneof, sum |-> sum, place |-> place,
     regions |-> regions, languages |-> {}, revision |-> revision, flags |-> flags, bad |-> FALSE]
Plain == Rev("Sol (USA)", "sol", None, "s1", 2, {"usa"}, 0, {})
Euro  == Rev("Sol (Europe)", "sol", None, "s2", 3, {"eur"}, 0, {})
Next2 == Rev("Sol (USA) (Rev 1)", "sol", None, "s3", 5, {"usa"}, 1, {"beta"})
Moon  == Rev("Moon (USA)", "moon", None, None, 4, {"usa"}, 0, {})
\* b's: one lists a's plain game under another name, as a clone of its own.
Luna  == Rev("Luna (Europe)", "luna", None, "s9", 1, {"eur"}, 0, {})
Lune  == Rev("Lune (France)", "lune", "Luna (Europe)", "s1", 6, {"eur"}, 0, {"unl"})
List  == [plain |-> Plain, euro |-> Euro, rev |-> Next2, moon |-> Moon, luna |-> Luna, lune |-> Lune]

\* A file of each DAT, and a second one of a2.
Held == {"fa1", "fa2", "fa2s", "fan", "fb1", "fc2"}
Holds == [f \in Held |-> CASE f = "fa1" -> "a1" [] f \in {"fa2", "fa2s"} -> "a2" [] f = "fan" -> "an"
                           [] f = "fb1" -> "b1" [] OTHER -> "c2"]
Lists == [f \in Held |-> CASE f = "fa1" -> <<"plain", "euro">> [] f = "fa2" -> <<"plain", "rev", "moon">>
                           [] f = "fa2s" -> <<"euro", "rev">> [] f = "fan" -> <<"rev", "plain">>
                           [] f = "fb1" -> <<"luna", "lune">> [] OTHER -> <<"plain", "moon">>]

Default1 == [regions |-> <<"usa", "eur">>, languages |-> {}, latest |-> TRUE, hide |-> {"beta"}]
Other1   == [regions |-> <<"eur">>, languages |-> {}, latest |-> TRUE, hide |-> {}]
Both     == {Default1, Other1}

Case(files, spent) ==
    [files |-> files, budget |-> [e \in Events |-> IF e \in DOMAIN spent THEN spent[e] ELSE 0]]

\* A family's versions come in any order, one corrected, while a title is wanted.
Refreshed == Case({"fa1", "fa2", "fa2s"}, [drop |-> 3, want |-> 1, unwant |-> 1, remove |-> 1])
\* Two publishers list the same game.
Shared    == Case({"fa1", "fa2", "fb1"}, [drop |-> 3, remove |-> 1, kill |-> 1])
\* A DAT whose name the table does not know is bound, beside a version without digits.
Unbound   == Case({"fa1", "fan", "fb1"}, [drop |-> 3, bind |-> 1, remove |-> 1, kill |-> 1, reject |-> 1])
\* Two families turn out to be one.
Joined    == Case({"fa1", "fc2"}, [drop |-> 3, upgrade |-> 1, want |-> 1, kill |-> 1])
\* The user changes the preferences.
Preferred == Case({"fa1", "fa2"}, [drop |-> 2, prefer |-> 2, leave |-> 1, kill |-> 1, pause |-> 1, remove |-> 1])

AllCases == {Refreshed, Shared, Unbound, Joined, Preferred}
=============================================================================
