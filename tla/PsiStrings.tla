----------------------------- MODULE PsiStrings -----------------------------
(***************************************************************************)
(* The string lists psi.go passes across the gomobile boundary, which has  *)
(* no list type: SetDynamicConfig's space-delimited authorizations and     *)
(* GetDNSServers' comma-delimited resolver list from the host.  A string   *)
(* is a sequence of characters (single-character strings).                 *)
(***************************************************************************)
EXTENDS Naturals, Sequences, SequencesExt

(* strings.Split(s, sep) for a one-character sep: the pieces between the  *)
(* separators, empty ones included; a string with no separator is one      *)
(* piece, the empty string too.                                            *)
RECURSIVE Split(_, _)
Split(s, sep) ==
    LET i == SelectInSeq(s, LAMBDA ch : ch = sep)
    IN  IF i = 0 THEN << s >>
        ELSE << SubSeq(s, 1, i - 1) >> \o Split(SubSeq(s, i + 1, Len(s)), sep)

(* SetDynamicConfig with the length test dropped.                          *)
SplitAuthorizationsUnguarded(s) == Split(s, " ")

(* psi.go 308-311: an empty list is no authorizations, not one empty one.  *)
SplitAuthorizations(s) == IF Len(s) > 0 THEN Split(s, " ") ELSE << >>

(* psi.go 558-562: "" is no servers; otherwise split on commas.            *)
SplitDNSServers(s) == IF s = << >> THEN << >> ELSE Split(s, ",")

(***************************************************************************)
(* Reference: pieces joined with the separator between them.               *)
(***************************************************************************)
Join(parts, sep) ==
    IF parts = << >> THEN << >>
    ELSE FoldLeft(LAMBDA acc, p : acc \o << sep >> \o p, Head(parts), Tail(parts))

(* `out` is the list whose encoding is `in`: no piece holds the separator, *)
(* joining the pieces gives `in` back, and only "" encodes the empty list. *)
IsListEncoding(in, out, sep) ==
    /\ \A i \in DOMAIN out : ~ Contains(out[i], sep)
    /\ Join(out, sep) = in
    /\ (out = << >>) = (in = << >>)

=============================================================================
