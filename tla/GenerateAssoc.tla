--------------------------- MODULE GenerateAssoc ---------------------------
(***************************************************************************)
(* src/generate_assoc.py: associates every nmap fingerprint description    *)
(* with the xprobe2 OS identifier that shares most tokens with it.         *)
(*                                                                         *)
(* Strings are abstracted.  A description is split on " " into a sequence  *)
(* of Words; what the scorer looks at in a word is its length, whether it  *)
(* starts with a digit, whether it is one of the stop words, and in which  *)
(* OS identifiers it occurs as a substring (name.find(token) != -1).       *)
(* Those facts are constants, given for a small vocabulary by MC modules.  *)
(***************************************************************************)
EXTENDS Naturals, Sequences, FiniteSets

CONSTANTS
  Names,        \* OS identifiers that can appear as OS_ID = "..." lines
  Words,        \* tokens that can appear in a fingerprint description
  WordLen,      \* len(token)
  DigitWords,   \* tokens matched by re.match("[0-9]", token)
  StopWords,    \* "Release", "Kernel", "Server"
  Occurs,       \* Occurs[n]: the tokens t with n.find(t) != -1
  Other,        \* a line of either file that the script's regexp skips
  NoName,       \* bestname = None
  MaxConfLines, \* lines of xprobe2.conf
  MaxDbLines,   \* lines of nmap-os-db
  MaxTokens     \* tokens of one description

ASSUME WordsAssumption ==
  /\ WordLen \in [Words -> Nat]
  /\ DigitWords \subseteq Words /\ StopWords \subseteq Words
  /\ Occurs \in [Names -> SUBSET Words]
  \* str.find("") is 0 for every string
  /\ \A n \in Names, t \in Words : WordLen[t] = 0 => t \in Occurs[n]
  /\ NoName \notin Names /\ Other \notin Names

\* The lines the script reacts to: an OS_ID line carries a name, a
\* "Fingerprint <description>" line carries the description's tokens.
Descriptions == UNION {[1..k -> Words] : k \in 1..MaxTokens}
ConfLines == Names \cup {Other}
DbLines == Descriptions \cup {Other}
BoundedSeq(S, n) == UNION {[1..k -> S] : k \in 0..n}

VARIABLES
  conf,    \* the lines of xprobe2.conf
  db,      \* the lines of nmap-os-db not read yet
  xprobe,  \* the global list filled by get_xprobe
  out,     \* the lines printed so far, as [fp, best] records
  pc       \* "xprobe", "config" or "done"

vars == <<conf, db, xprobe, out, pc>>

TypeOK ==
  /\ conf \in Seq(ConfLines)
  /\ db \in Seq(DbLines)
  /\ xprobe \in Seq(Names)
  /\ out \in Seq([fp : Descriptions, best : Names \cup {NoName}])
  /\ pc \in {"xprobe", "config", "done"}

-----------------------------------------------------------------------------
(* find_match *)

\* The two "continue"s of the token loop.
Skipped(t) ==
  \/ WordLen[t] <= 1 /\ t \notin DigitWords
  \/ t \in StopWords

\* What one token adds to count for name n.
TokenWeight(t, n) ==
  IF ~Skipped(t) /\ t \in Occurs[n]
    THEN IF WordLen[t] >= 5 THEN 2 ELSE 1
    ELSE 0

\* The inner loop: count for name n over the tokens of fp.
Count(n, fp) ==
  LET c[i \in 0..Len(fp)] ==
        IF i = 0 THEN 0 ELSE c[i - 1] + TokenWeight(fp[i], n)
  IN  c[Len(fp)]

\* The outer loop over xprobe: [maxcount, bestname] after each name; a
\* name replaces the best one only with a strictly larger count.
Scan(fp, xs) ==
  LET s[i \in 0..Len(xs)] ==
        IF i = 0 THEN [max |-> 0, best |-> NoName]
        ELSE LET k == Count(xs[i], fp)
             IN  IF k > s[i - 1].max THEN [max |-> k, best |-> xs[i]]
                 ELSE s[i - 1]
  IN  s[Len(xs)]

\* Mutant: "if count >= maxcount", the last of equally good names wins.
FindMatchLastTie(fp, xs) ==
  LET s[i \in 0..Len(xs)] ==
        IF i = 0 THEN [max |-> 0, best |-> NoName]
        ELSE LET k == Count(xs[i], fp)
             IN  IF k >= s[i - 1].max /\ k > 0 THEN [max |-> k, best |-> xs[i]]
                 ELSE s[i - 1]
  IN  IF s[Len(xs)].max > 1 THEN s[Len(xs)].best ELSE NoName

\* The decision after the loop: "%s;%s" when maxcount > 1 and bestname,
\* else the commented-out "#%s;".
FindMatch(fp, xs) ==
  LET r == Scan(fp, xs)
  IN  IF r.max > 1 /\ r.best # NoName THEN r.best ELSE NoName

-----------------------------------------------------------------------------
(* The script *)

Init ==
  /\ conf \in BoundedSeq(ConfLines, MaxConfLines)
  /\ db \in BoundedSeq(DbLines, MaxDbLines)
  /\ xprobe = <<>>
  /\ out = <<>>
  /\ pc = "xprobe"

\* get_xprobe("xprobe2.conf"): every OS_ID line appends its name, in order.
GetXprobe ==
  /\ pc = "xprobe"
  /\ xprobe' = SelectSeq(conf, LAMBDA l : l \in Names)
  /\ pc' = "config"
  /\ UNCHANGED <<conf, db, out>>

\* One iteration of make_configuration's loop over nmap-os-db.
MakeConfigurationLine ==
  /\ pc = "config"
  /\ db # <<>>
  /\ out' = IF Head(db) = Other THEN out
            ELSE Append(out, [fp |-> Head(db),
                              best |-> FindMatch(Head(db), xprobe)])
  /\ db' = Tail(db)
  /\ UNCHANGED <<conf, xprobe, pc>>

\* The end of the file: the script returns.
EndOfDb ==
  /\ pc = "config"
  /\ db = <<>>
  /\ pc' = "done"
  /\ UNCHANGED <<conf, db, xprobe, out>>

Done == pc = "done" /\ UNCHANGED vars

Next == GetXprobe \/ MakeConfigurationLine \/ EndOfDb \/ Done

Spec == Init /\ [][Next]_vars /\ WF_vars(GetXprobe \/ MakeConfigurationLine \/ EndOfDb)

-----------------------------------------------------------------------------
(* The reference: the association spec.md section 6 describes *)

\* The tokens the association ignores: shorter than two characters and not
\* numeric, or a stop word.
RefIgnored(t) == (WordLen[t] < 2 /\ t \notin DigitWords) \/ t \in StopWords

\* The score of name n: the matching tokens that are not ignored, those of
\* length >= 5 counted twice.
RefScore(n, fp) ==
  LET hits == {i \in DOMAIN fp : ~RefIgnored(fp[i]) /\ fp[i] \in Occurs[n]}
  IN  Cardinality(hits) + Cardinality({i \in hits : WordLen[fp[i]] >= 5})

\* The greedy best match: the first identifier of the list whose score no
\* other beats, provided that score is above the threshold.
RefMatch(fp, xs) ==
  LET best(i) == /\ \A j \in DOMAIN xs : RefScore(xs[j], fp) <= RefScore(xs[i], fp)
                 /\ \A j \in 1..(i - 1) : RefScore(xs[j], fp) < RefScore(xs[i], fp)
  IN  IF \E i \in DOMAIN xs : RefScore(xs[i], fp) > 1
        THEN xs[CHOOSE i \in DOMAIN xs : best(i)]
        ELSE NoName

\* Every association printed by make_configuration/find_match is the one
\* the reference scorer picks for that description and the xprobe list.
FindMatchCorrect ==
  \A i \in DOMAIN out : out[i].best = RefMatch(out[i].fp, xprobe)

=============================================================================
