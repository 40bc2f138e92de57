------------------------------- MODULE MCNames -------------------------------
(***************************************************************************)
(* Small instance: names of up to three characters and a few longer ones,  *)
(* a limit of five, and hashes of one character.  Each rewritten name is   *)
(* also given to a BuildConfig, so that the documented gap happens.        *)
(***************************************************************************)
EXTENDS Names, TLC

MCLower == "A" :> "a"

\* A name's hash is a character of its own.
MCDigest(name) == <<ToString(name)>>

Short == UNION {[1..n -> {"a", "A", ".", "-"}] : n \in 1..3}
Long == {<<"a", "a", "-", "a", "a">>, <<"a", "a", "-", "a", "a", "a">>, <<"a", "a", ".", "a", "a">>,
         <<"a", "a", "a", "a", "a", "a">>, <<"a", "a", "a", "a", "a", "A">>}
Rewritten == {<<"a", "-">> \o MCDigest(<<"A">>), <<"a", "a", "-">> \o MCDigest(<<"a", "a", ".">>),
              <<"b", "c", "-">> \o MCDigest(<<".", ".">>)}
MCOriginals == Short \union Long \union Rewritten

\* The hashes of what a name is sanitized to are characters too, though no name has one.
MCAlphanumerics ==
  LET sources == MCOriginals \union {a \o <<"-", "dockerfile">> : a \in MCOriginals}
      bases == UNION {[1..n -> {"a", "-"}] : n \in 0..6}
  IN  {"a", "b", "c", "dockerfile"} \union {ToString(n) : n \in sources \union bases}
MCCharacters == MCAlphanumerics \union {"A", ".", "-"}
=============================================================================
