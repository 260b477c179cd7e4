----------------------------- MODULE MCWidgets ------------------------------
(* Instances of Widgets for TLC: the thread table's action, one that keeps a  *)
(* part of the query, and one of each other kind; ids that hold a slash, a    *)
(* question mark, a reference and dots, and a row without a note.             *)
EXTENDS Widgets

Navigate(to, query, preserve, omit, confirm) ==
  [kind |-> "navigate", to |-> to, query |-> query, preserve |-> preserve,
   omitEmpty |-> omit, confirm |-> confirm]

Thread == Navigate(<<"/", "t", "/", "$id">>, << >>, {}, FALSE, FALSE)
Named  == [kind |-> "path", path |-> "note"]
Fixed  == [kind |-> "text", text |-> <<"$id">>]
Find   ==
  Navigate(<<"/", "search">>, [q |-> Named, from |-> Fixed], {"scope"}, TRUE, FALSE)
About  == [kind |-> "template", text |-> <<"b", "$note">>]
Exact  ==
  Navigate(<<"/", "search", "?", "a">>, [q |-> Named, text |-> About], {}, FALSE, TRUE)
Noted  == Navigate(<<"/", "u", "/", "$note", "?", "$id">>, << >>, {}, FALSE, FALSE)

Download == [kind |-> "download", to |-> <<"/", "f", "/", "$id", "/", "$note">>,
             confirm |-> FALSE]
Server == [kind |-> "server", name |-> "archive", confirm |-> FALSE]
Asked  == [kind |-> "server", name |-> "delete", confirm |-> TRUE]
Copy   == [kind |-> "copy", field |-> "note", confirm |-> FALSE]
Event  == [kind |-> "event", confirm |-> FALSE]

MCLetters == {"/", "?", ".", "$id", "$note", "a", "b", "t", "u", "f", "search"}

MCRows == {[id |-> <<"a", "/", "?">>, note |-> <<"$id", "a">>],
           [id |-> <<".", ".">>, note |-> <<".", "a">>],
           [id |-> <<"$id">>]}

MCSelects == {{}, {Thread}, {Find}, {Exact}, {Noted}, {Asked}}
MCButtons == {{}, {Server}, {Asked}, {Download}, {Copy}, {Event}}
=============================================================================
