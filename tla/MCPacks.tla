------------------------------ MODULE MCPacks ------------------------------
(* A small world for each pack. *)
EXTENDS Packs

(* Three hosts, one a subdomain, one private whose name begins like another's;
   full URLs and a bare name. *)
MCHosts == {"site", "www.site", "site.local"}
MCStems == [h \in MCHosts |-> IF h = "site.local" THEN {"site"} ELSE {}]
MCAncestors == [h \in MCHosts |-> IF h = "www.site" THEN {"site"} ELSE {}]
URL(h, p) == [full |-> TRUE, host |-> h, path |-> p]
MCRaws == {URL("site", <<"v1">>), URL("www.site", <<>>), URL("site.local", <<>>),
         [full |-> FALSE, host |-> "site", path |-> <<>>]}
MCBatches == {<<x, y, z>> : x, y, z \in MCRaws}

Entry(h, p) == [host |-> h, sub |-> FALSE, path |-> p, any |-> FALSE]
Wildcard(h) == [host |-> h, sub |-> TRUE, path |-> <<>>, any |-> FALSE]
Anything == [host |-> "", sub |-> FALSE, path |-> <<>>, any |-> TRUE]
DefaultOf(urls, private) == [kind |-> "default", urls |-> urls, private |-> private]
ListOf(urls) == [kind |-> "allowlist", urls |-> urls]
CustomOf(fails, all, urls) == [kind |-> "custom", fails |-> fails, all |-> all, urls |-> urls]
MCPolicies == {
  <<DefaultOf({}, FALSE)>>,
  <<DefaultOf({Entry("site", <<>>)}, TRUE)>>,
  <<ListOf({Entry("site", <<"v1">>)}), CustomOf(FALSE, FALSE, {Wildcard("site")})>>,
  <<CustomOf(TRUE, FALSE, {})>>,
  <<CustomOf(FALSE, TRUE, {}), DefaultOf({}, FALSE)>>,
  <<CustomOf(FALSE, FALSE, {Entry("site.local", <<>>)})>>,
  <<CustomOf(FALSE, FALSE, {Anything})>>}

(* Texts to find and to put in their place: one that overlaps itself, ones that
   hold or make what was found, and none. *)
MCFinds == {<<s>> : s \in Symbols} \cup {<<s, s>> : s \in Symbols}
MCReplacements == {<<>>} \cup {<<s>> : s \in Symbols} \cup {<<s, t>> : s, t \in Symbols}

(* strings.ReplaceAll once more, as one pass over the text. *)
Scanned(text, find, with) ==
  LET from[i \in 1..Len(text) + 1] ==
        CASE i > Len(text) -> <<>>
          [] i \in W!Occurrences(text, find) -> with \o from[i + Len(find)]
          [] OTHER -> <<text[i]>> \o from[i + 1]
  IN from[1]

ASSUME ReplaceAllScans ==
  \A text \in UNION {[1..n -> Symbols] : n \in 0..5}, find \in MCFinds, with \in MCReplacements :
    W!ReplaceAll(text, find, with) = Scanned(text, find, with)

(* Four files, one of them in a skipped directory; all can be read, or the
   root cannot, or a directory, or some of the files. *)
MCTree == << <<".git", "a">>, <<"a">>, <<"d", "b">>, <<"e">> >>
MCUnreadables == {{}, {<<>>}, {<<"d">>}, {<<"a">>, <<"d", "b">>}}
MCPatterns == {<<"**">>, <<"*">>, <<"**", "b">>}
=============================================================================
