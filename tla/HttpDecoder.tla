----------------------------- MODULE HttpDecoder -----------------------------
(***************************************************************************)
(* How the HTTP decoder looks for a valid start: the Locate methods, as    *)
(* functions of all the bytes there are.  A byte is a carriage return, a   *)
(* line feed, a start (the text of a request's or response's first line,   *)
(* which the regular expression finds anywhere in a line), or any other.   *)
(***************************************************************************)
EXTENDS Integers, Sequences

CONSTANT BufferSize \* size of the bufio.Reader, defaultBufSize: 4096

ASSUME BufferSizeAssumption == BufferSize \in Nat \ {0}

Bytes == {"cr", "lf", "start", "other"}

NotFound == -1

\* The end of the slice that ReadSlice(delim) returns from position i on, 0 if
\* it returns an error: the stream ends, or the buffer is full, before delim.
ReadSlice(b, delim, i) ==
  LET ends == {e \in i .. Len(b) : e - i < BufferSize /\ b[e] = delim}
  IN  IF ends = {} THEN 0 ELSE CHOOSE e \in ends : \A f \in ends : e <= f

\* The line up to e without its last byte has a valid first line.
IsStart(b, i, e) == \E j \in i .. e - 1 : b[j] = "start"

Counted(n, count) == IF count = NotFound THEN NotFound ELSE n + count

\* Mutant: a line without a first line ends the search.
LocateGivesUp(b, delim) ==
  LET e == ReadSlice(b, delim, 1)
  IN  IF e # 0 /\ b[e] = "cr" /\ IsStart(b, 1, e) THEN 0 ELSE NotFound

\* The loop of both methods: slices that are no valid first line are counted
\* with the bytes the loop takes for their end, until one is.
Locate(b, delim) ==
  LET scan[i \in 1 .. Len(b) + 1] ==
        LET e == ReadSlice(b, delim, i)
            len == e - i + 1
        IN  IF e = 0 THEN NotFound
            ELSE IF b[e] # "cr" THEN Counted(len + 1, scan[e + 1])
            ELSE IF ~IsStart(b, i, e) THEN Counted(len + 2, scan[e + 1])
            ELSE 0
  IN  scan[1]

LocateToValidStartInC2SStream(b) == Locate(b, "cr")

\* The slices end with a line feed where the loop looks for a carriage return, so
\* that no response is ever found.
LocateToValidStartInS2CStream(b) == Locate(b, "lf")

=============================================================================
