----------------------------- MODULE MCLinkList -----------------------------
(***************************************************************************)
(* A small instance of LinkList for TLC: three links, two to a page.       *)
(***************************************************************************)
EXTENDS LinkList, TLC

CONSTANTS q1, r1, url, note, word

Listed(target, txt, created, updated, expires, disabled) ==
    [id |-> r1, target |-> target, text |-> txt, label |-> Null,
     created |-> created, updated |-> updated, expires |-> expires,
     disabled |-> disabled]

SmallRows ==
    {Listed(url, Null, 0, 0, Null, Null), Listed(url, Null, 1, 1, Null, Null),
     Listed(Null, note, 0, 0, 1, Null),   Listed(Null, note, 0, 1, 1, 1),
     Listed(url, Null, 0, 1, Null, Null)}

By(query, status, kind, sort) ==
    [query |-> query, status |-> status, kind |-> kind, sort |-> sort]

(* "word" is part of the targets and of one slug.                          *)
SmallSearches == {Null, word}
SmallContains == word :> {url, 2}

SmallFilters ==
    {By(word, "all", "all", "newest"), By(Null, "active", "all", "oldest"),
     By(Null, "active", "url", "clicked"), By(Null, "expiring", "text", "slug"),
     By(Null, "expired", "all", "updated"), By(Null, "disabled", "all", "clicked")}
=============================================================================
