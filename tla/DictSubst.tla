------------------------------ MODULE DictSubst ------------------------------
(***************************************************************************)
(* The template substitution of packager.py (lines 150-177): every debian/ *)
(* file is written by copy_and_replace_dict_file, which reads a template   *)
(* line by line and replaces each match of rgx_var, %[A-Z][A-Z0-9_]*%, by  *)
(* the value of the config dictionary for the whole match, the empty text  *)
(* for a missing or empty value.  replace_dict_line splices the values in  *)
(* from the last match to the first, with the offsets finditer computed on *)
(* the unmodified line.                                                    *)
(*                                                                         *)
(* Text is a sequence of one-character strings; the model's alphabet is a  *)
(* handful of characters standing for the classes the regex tells apart.   *)
(***************************************************************************)
EXTENDS Integers, Sequences, SequencesExt

CONSTANTS
  Upper,   \* characters of [A-Z]
  Digits,  \* characters of [0-9]
  NL,      \* the end of a line
  Dico,    \* the config dictionary: a function from keys to values
  Files    \* the template files to render: sequences of lines

\* [A-Z0-9_], the characters of a key after its first letter.
KeyChar == Upper \cup Digits \cup {"_"}

\* rgx_var matched at position p of s: the index of its closing "%", or 0.
MatchEnd(s, p) ==
  IF p + 2 <= Len(s) /\ s[p] = "%" /\ s[p + 1] \in Upper
  THEN LET after == {q \in p + 2..Len(s) : s[q] \notin KeyChar}
       IN IF after # {} /\ s[Min(after)] = "%" THEN Min(after) ELSE 0
  ELSE 0

\* re.finditer: the leftmost match from p on, then the next one after it.
RECURSIVE Finditer(_, _)
Finditer(s, p) ==
  IF p > Len(s) THEN <<>>
  ELSE IF MatchEnd(s, p) # 0
       THEN <<<<p, MatchEnd(s, p)>>>> \o Finditer(s, MatchEnd(s, p) + 1)
       ELSE Finditer(s, p + 1)

\* value = dico.get(key); if not value: value = ''
Value(key) == IF key \in DOMAIN Dico THEN Dico[key] ELSE <<>>

\* res = res[:m.start(1)] + value + res[m.end(1):], the match m taken from
\* the original line.
Splice(line, res, m) ==
  LET key == SubSeq(line, m[1], m[2])
  IN ReplaceSubSeqAt(m[1], Value(key), key, res)

\* The matches spliced first to last, each at its offset in the original.
ReplaceDictLineForward(line) ==
  FoldLeft(LAMBDA res, m : Splice(line, res, m), line, Finditer(line, 1))

replace_dict_line(line) ==
  FoldLeft(LAMBDA res, m : Splice(line, res, m), line,
           Reverse(Finditer(line, 1)))

\* What the substitution means: the text read left to right, each match of
\* rgx_var replaced by its value.
RECURSIVE Substituted(_, _)
Substituted(s, p) ==
  IF p > Len(s) THEN <<>>
  ELSE IF MatchEnd(s, p) # 0
       THEN Value(SubSeq(s, p, MatchEnd(s, p)))
              \o Substituted(s, MatchEnd(s, p) + 1)
       ELSE <<s[p]>> \o Substituted(s, p + 1)

VARIABLES
  template,  \* the lines of the template file being read
  k,         \* the next line of the file
  res,       \* replace_dict_file's accumulated result
  target     \* the debian/ file: "none" until writeall

vars == <<template, k, res, target>>

Init ==
  /\ template \in Files
  /\ k = 1
  /\ res = <<>>
  /\ target = "none"

\* for l in f: res += replace_dict_line(l, dico)
ReadLine ==
  /\ k <= Len(template)
  /\ res' = res \o replace_dict_line(template[k])
  /\ k' = k + 1
  /\ UNCHANGED <<template, target>>

\* writeall(target, out)
WriteTarget ==
  /\ k > Len(template)
  /\ target = "none"
  /\ target' = res
  /\ UNCHANGED <<template, k, res>>

Done ==
  /\ target # "none"
  /\ UNCHANGED vars

Next == ReadLine \/ WriteTarget \/ Done

Spec == Init /\ [][Next]_vars

-----------------------------------------------------------------------------

\* The debian/ file copy_and_replace_dict_file writes is the whole template
\* with every %KEY% replaced by its config value, left to right, as if the
\* file were one text: splicing the values from the last match back to the
\* first keeps the earlier offsets valid although the values are longer or
\* shorter than their keys, and reading line by line loses no match.
RenderMatchesReference ==
  target # "none" => target = Substituted(FlattenSeq(template), 1)
=============================================================================
