----------------------------- MODULE KTLSRelease -----------------------------
(***************************************************************************)
(* The kernel release parser of the init() of ktls_linux.go: the uname     *)
(* release string is cut at its first '.' for the major number, the major  *)
(* digits and '.' are stripped from its front with strings.TrimLeft, and   *)
(* what is left is cut at its first '.' for the minor number; both go      *)
(* through strconv.Atoi.  A string is a sequence of one-character strings; *)
(* indices follow Go (0-based, -1 when not found).                         *)
(***************************************************************************)
EXTENDS Integers, SequencesExt, Functions

Digits == {"0", "1", "2", "3", "4", "5", "6", "7", "8", "9"}

DigitValue(c) ==
    CASE c = "0" -> 0 [] c = "1" -> 1 [] c = "2" -> 2 [] c = "3" -> 3
      [] c = "4" -> 4 [] c = "5" -> 5 [] c = "6" -> 6 [] c = "7" -> 7
      [] c = "8" -> 8 [] c = "9" -> 9

\* strings.Index(s, c) for a one-character c.
GoIndex(s, c) == SelectInSeq(s, LAMBDA x : x = c) - 1

\* strings.TrimLeft(s, cutset): drops the longest prefix of s whose
\* characters all belong to cutset.
GoTrimLeft(s, cutset) ==
    LET keep == SelectInSeq(s, LAMBDA x : x \notin cutset)
    IN  IF keep = 0 THEN <<>> ELSE SubSeq(s, keep, Len(s))

\* strconv.Atoi succeeds on an optional sign followed by at least one digit.
AtoiOK(s) ==
    LET body == IF s # <<>> /\ s[1] \in {"+", "-"} THEN Tail(s) ELSE s
    IN  body # <<>> /\ Range(body) \subseteq Digits

Atoi(s) ==
    LET neg  == s[1] = "-"
        body == IF s[1] \in {"+", "-"} THEN Tail(s) ELSE s
        val  == FoldLeft(LAMBDA acc, c : 10 * acc + DigitValue(c), 0, body)
    IN  IF neg THEN -val ELSE val

Outcome(status, v) == [status |-> status, version |-> v]

\* Lines 84-99 of init(): "panic" where a slice bound is -1, "fail" where
\* Atoi returns an error, "ok" with the (major, minor) pair otherwise.
ParseRelease(release) ==
    LET d1 == GoIndex(release, ".")
    IN  IF d1 = -1 THEN Outcome("panic", <<>>)
        ELSE
        LET majorRelease == SubSeq(release, 1, d1)
            rest         == GoTrimLeft(release, Range(majorRelease) \cup {"."})
            d2           == GoIndex(rest, ".")
        IN  IF d2 = -1 THEN Outcome("panic", <<>>)
            ELSE
            LET minorRelease == SubSeq(rest, 1, d2)
            IN  IF ~AtoiOK(majorRelease) \/ ~AtoiOK(minorRelease) THEN Outcome("fail", <<>>)
                ELSE Outcome("ok", <<Atoi(majorRelease), Atoi(minorRelease)>>)

\* Reference reading of a release "major.minor.rest": the numbers of its
\* first two dot-separated fields.
RefVersion(major, minor) == Outcome("ok", <<Atoi(major), Atoi(minor)>>)

CONSTANTS
    Majors,     \* major fields: non-empty digit sequences
    Minors,     \* minor fields: non-empty digit sequences
    Rests       \* what follows the second '.' (patch level and suffix)

VARIABLES
    release,   \* the uname release field, up to its first NUL
    major,     \* the major field it was built from
    minor,     \* the minor field it was built from
    parsed     \* the outcome of the parse; status "unparsed" before init() ran

vars == <<release, major, minor, parsed>>

Init ==
    /\ \E M \in Majors, m \in Minors, r \in Rests :
          /\ release = M \o <<".">> \o m \o <<".">> \o r
          /\ major = M
          /\ minor = m
    /\ parsed = Outcome("unparsed", <<>>)

\* The release-parsing part of init().
Parse ==
    /\ parsed.status = "unparsed"
    /\ parsed' = ParseRelease(release)
    /\ UNCHANGED <<release, major, minor>>

Next == Parse

Spec == Init /\ [][Next]_vars

\* init() reads the kernel version a well-formed release string states: it
\* neither panics, nor degrades to "unsupported", nor reads another number.
ParseAgreesWithReference ==
    parsed.status # "unparsed" => parsed = RefVersion(major, minor)

=============================================================================
