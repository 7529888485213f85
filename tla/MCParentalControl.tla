------------------------- MODULE MCParentalControl -------------------------
(* An instance of ParentalControl for TLC: a child and a television, two   *)
(* categories that share a domain, lines of both kinds.                    *)
EXTENDS ParentalControl, TLC

CONSTANTS video, site, ads, stranger

MCFiles ==
  (1 :> <<[name |-> video, suffix |-> FALSE]>>) @@
  (2 :> <<[name |-> site, suffix |-> TRUE]>>) @@
  (Global :> <<[name |-> ads, suffix |-> TRUE]>>)

\* video is a host of site.
MCDomains == {video, site}
MCParents == video :> {site} @@ site :> {}
MCLists == {1, 2, Global}

MCDeviceType == <<"child", "iot">>
\* Overlapping grants of one pair, a grant of a hard category, a time in the
\* ISO form, a time that is no time, and a grant of another device.
MCNewGrants ==
  {[pair |-> <<1, 1>>, expires |-> 2, format |-> "iso"],
   [pair |-> <<1, 1>>, expires |-> 6, format |-> "sql"],
   [pair |-> <<1, 2>>, expires |-> 6, format |-> "sql"],
   [pair |-> <<2, 2>>, expires |-> 6, format |-> "bad"],
   [pair |-> <<2, 2>>, expires |-> 4, format |-> "sql"]}

\* A category becomes a hard one; or another no longer is one.
MCHarden == {<<<<1, 1>>, "hard">>}
MCSoften == {<<<<1, 2>>, "grantable">>}

MCSetup ==
  (<<1, 1>> :> "grantable") @@ (<<1, 2>> :> "hard") @@
  (<<2, 1>> :> "none") @@ (<<2, 2>> :> "grantable")
=============================================================================
