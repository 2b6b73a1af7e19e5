---------------------------- MODULE MCAdminPages ----------------------------
(* Small instance of AdminPages for TLC. *)
EXTENDS AdminPages, TLC

(* RelationPicker *)
MCMatches == [q \in {"", "a", "b"} |-> CASE q = "" -> {"i1", "i2", "i3"}
                                         [] q = "a" -> {"i1", "i2"} [] OTHER -> {}]
MCStored == {<<>>, <<"i1">>, <<"i3", "i1">>}

(* FieldOptions *)
MCEntry == {"", "5", "10", "b", "B", "page", "post", "title"}
MCNorm == [v \in MCEntry |-> IF v = "B" THEN "b" ELSE v]
MCFieldsOf == [t \in {"page", "post"} |-> IF t = "page" THEN {"title"} ELSE {"b"}]

\* Of two inputs of a type, one can only be cleared; one text is changed by Apply.
MCTyped ==
  [k \in Key |-> CASE k = "allowed_formats" -> {"B"} [] k = "placeholder" -> {"b"}
                   [] k = "min_items" -> {"5"} [] OTHER -> {""}]

Options(f) == [data |-> f @@ NoOptions.data, choices |-> <<>>]

MCRawTexts ==
  {NoOptions,
   Options("max" :> "10"),
   Options("max_length" :> "5" @@ "placeholder" :> "b"),
   Options("max_size_mb" :> "10" @@ "allowed_formats" :> "b"),
   Options("target_content_type_id" :> "page" @@ "display_field_slug" :> "title"),
   [NoOptions EXCEPT !.choices = <<"x">>]}

(* MediaEditor: a name is stored without its leading dots. *)
MCName == {"", "cat", "dog", ".cat"}
MCClean == [n \in MCName |-> IF n = ".cat" THEN "cat" ELSE n]

MCNamed == [a \in {"m1", "m2"} |-> IF a = "m1" THEN "cat" ELSE "dog"]

(* IconPicker *)
MCPassing == [f \in {"", "x"} |-> IF f = "" THEN {"bi-box", "bi-eye"} ELSE {"bi-box"}]

(* AdminShell: a link into each group, one a prefix of the other, and one in none. *)
MCPath == {<<"c">>, <<"c", "1">>, <<"c", "1", "2">>, <<"h">>, <<"x">>}
MCHref == {<<"c", "1">>, <<"c", "1", "2">>, <<"h">>}
MCGroupOf == [h \in MCHref |-> IF h = <<"h">> THEN "none" ELSE IF Len(h) = 2 THEN "g1" ELSE "g2"]
=============================================================================
