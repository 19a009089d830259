----------------------------- MODULE MCCmsState -----------------------------
(* CmsState with finite sets for TLC. *)
EXTENDS CmsState, TLC

English == [id |-> "en", text |-> "legacy"]
AppForm == [id |-> "app", text |-> "plain"]
APage == [id |-> "app", status |-> "published", text |-> "url"]

\* No row yet; a seeded one; and the live state that the comments of migrate
\* describe, at version 10 without a splash text.
Rows ==
  {NoRow,
   [version |-> 11, settings |-> [splashText |-> "written", hotline |-> "written"],
    menu |-> {"Home"}, home |-> "plain", pages |-> <<APage>>, types |-> <<AppForm>>,
    payments |-> "arabic"],
   [version |-> 10, settings |-> [hotline |-> "written"], menu |-> {"Home"},
    home |-> "id", pages |-> <<>>, types |-> <<English>>, payments |-> "arabic"]}

Blobs ==
  {[version |-> 11, menu |-> {"Home"}],
   [version |-> 3, settings |-> [contactPhone |-> "written"], home |-> "plain"],
   [version |-> 8, types |-> <<[id |-> "app", text |-> "bare"]>>, payments |-> "latin"],
   [version |-> 12, settings |-> [splashText |-> "blank"], pages |-> <<>>]}

ListEdits(list) ==
  {[kind |-> "edit", list |-> list, id |-> "app", updates |-> [text |-> "plain"]],
   [kind |-> "remove", list |-> list, id |-> "app"]}

\* The page id "en" stands for any generated one: no edit names it.
AllEdits ==
  {[kind |-> "settings", change |-> [splashText |-> "blank"]],
   [kind |-> "settings", change |-> [hotline |-> "written"]],
   [kind |-> "add", list |-> "pages",
    item |-> [id |-> "en", status |-> "draft", text |-> "url"]],
   [kind |-> "add", list |-> "types", item |-> [id |-> "en", text |-> "url"]],
   [kind |-> "toggle", list |-> "pages", id |-> "app"],
   [kind |-> "show"], [kind |-> "backup"],
   [kind |-> "menu", tabs |-> {"Home", "Discover"}],
   [kind |-> "menu", tabs |-> {"Unknown"}],
   [kind |-> "home", text |-> "url"]}
  \cup ListEdits("pages") \cup ListEdits("types")
  \cup {[kind |-> k, blob |-> b] : k \in {"replace", "import"}, b \in Blobs}

Interchangeable == Permutations(Requests)
=============================================================================
