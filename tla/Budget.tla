-------------------------------- MODULE Budget --------------------------------
(***************************************************************************)
(* How an agent pages through rows: the host cuts a page at a limit of     *)
(* rows and bytes (host/tools/_common.py), and the bridge cuts it again to *)
(* its own number of bytes and writes the cursor that goes on after the    *)
(* last row it kept (bridge/budget.py).                                    *)
(*                                                                         *)
(* A row has a size in bytes, and so has what a cursor says of it: its     *)
(* name, or the digits of an offset.                                       *)
(***************************************************************************)
EXTENDS Integers, Sequences, FiniteSets, SequencesExt

CONSTANTS
  MaxRows,      \* bound: the rows of a read
  RowSizes, NameSizes,
  Limits,       \* the limits that agents ask for
  HostBytes,    \* the host's budget of a page
  MaxBytes,     \* the bridge's
  Base          \* the size of a page without rows and cursor

VARIABLES
  mode,    \* the cursor style: name, offset, or none (the read takes no cursor)
  named,   \* whether every row has a name
  rows,
  aside,   \* the size of another list in each page, of rows of one byte
  limit,
  at,      \* the rows before the cursor
  got,     \* the rows that the agent has received
  page,    \* the last page, as it was sent
  crossed  \* history: an offset page was cut in the other list

vars == <<mode, named, rows, aside, limit, at, got, page, crossed>>
read == <<mode, named, rows, aside, limit>>

Init ==
  /\ mode \in {"name", "offset", "none"} /\ named \in BOOLEAN
  /\ rows \in BoundedSeq([size : RowSizes, name : NameSizes], MaxRows)
  /\ aside \in {0, 3} /\ limit \in Limits
  /\ at = 0 /\ got = <<>> /\ crossed = FALSE
  /\ page = [kept |-> 0, bytes |-> Base, over |-> FALSE, whole |-> TRUE, last |-> FALSE]

-----------------------------------------------------------------------------
(* The host. *)

Bytes(n) == FoldLeft(LAMBDA sum, row : sum + row.size, 0, SubSeq(rows, at + 1, at + n))

Smaller(a, b) == IF a < b THEN a ELSE b
\* page: at most limit rows, and at most that many bytes, but one row.
HostRows ==
  LET asked == Smaller(limit, Len(rows) - at)
      fits == {n \in 1 .. asked : \A k \in 2 .. n : Base + Bytes(k) + k <= HostBytes} IN
  IF asked <= 0 THEN 0 ELSE CHOOSE n \in fits : \A k \in fits : k <= n
More(n) == at + n < Len(rows)

-----------------------------------------------------------------------------
(* The bridge. *)

\* The text of the cursor after n rows of the page: a name, or an offset of one digit.
CursorSize(n) == IF mode = "offset" THEN 1 ELSE rows[at + n].name
HostSize == Base + Bytes(HostRows) + aside + (IF More(HostRows) /\ mode # "none" THEN CursorSize(HostRows) ELSE 0)

\* The page with its first n rows, or with n of the other list.
CutSize(key, n) ==
  IF key = "rows" THEN Base + Bytes(n) + aside + CursorSize(n)
  ELSE Base + Bytes(HostRows) + n + 1

RECURSIVE Search(_, _, _, _)
\* _leading_rows: the binary search for the most rows that fit; a longer page may have the
\* shorter cursor.
Search(key, lo, hi, kept) ==
  LET mid == (lo + hi) \div 2 IN
  IF lo > hi THEN kept
  ELSE IF CutSize(key, mid) <= MaxBytes THEN Search(key, mid + 1, hi, mid)
  ELSE Search(key, lo, mid - 1, kept)

\* An offset page is cut in its largest list, a page of names in its rows.
Keys ==
  IF mode = "name" THEN {"rows"}
  ELSE {k \in {"rows", "aside"} : /\ k = "rows" => HostRows > 0 /\ Bytes(HostRows) >= aside
                                  /\ k = "aside" => aside > 0 /\ aside >= Bytes(HostRows)}
Total(key) == IF key = "rows" THEN HostRows ELSE aside

\* Whether a cut could be resumed.
Cuts == mode # "none" /\ (mode = "name" => named /\ HostRows > 0) /\ Keys # {}

\* A page goes to the agent, whose next call has its cursor.
Sends(n, bytes, over, whole, last, to) ==
  /\ got' = got \o [i \in 1 .. n |-> at + i]
  /\ page' = [kept |-> n, bytes |-> bytes, over |-> over, whole |-> whole, last |-> last]
  /\ at' = to

\* It fits, or is sent whole, marked, since it could not be resumed.
Whole ==
  /\ HostSize <= MaxBytes \/ ~Cuts
  /\ Sends(HostRows, HostSize, HostSize > MaxBytes, TRUE, ~More(HostRows) \/ mode = "none", at + HostRows)
  /\ UNCHANGED crossed

\* Mutant: the cursor of the cut page stays the host's.
AfterHost(kept) == at + HostRows
\* cursor_for.
After(kept) == at + kept

\* _finish: the leading rows that fit, at least one, or the whole if they are not what
\* overflows.
Cut(key) ==
  LET kept == Search(key, 1, Total(key), 1)
      bytes == CutSize(key, kept) IN
  /\ HostSize > MaxBytes /\ Cuts
  /\ IF kept >= Total(key)
     THEN Sends(HostRows, HostSize, TRUE, TRUE, ~More(HostRows), at + HostRows) /\ UNCHANGED crossed
     ELSE /\ Sends(IF key = "rows" THEN kept ELSE HostRows, bytes, bytes > MaxBytes, FALSE, FALSE, After(kept))
          /\ crossed' = (crossed \/ key = "aside")

Call ==
  /\ ~page.last
  /\ Whole \/ \E key \in Keys : Cut(key)
  /\ UNCHANGED read

Next == Call
Spec == Init /\ [][Next]_vars /\ WF_vars(Next)

-----------------------------------------------------------------------------
(* Properties *)

\* "never drops rows without a cursor that returns them": the pages have each row once and in
\* order, and all of them when the last one came, unless a page was cut in a list that is not
\* the one its offset counts; and a page that is too large says so, and is one that has a
\* single row or could not be cut.
PagesHaveAll ==
  /\ crossed \/ got = [i \in 1 .. Len(got) |-> i]
  /\ page.last /\ mode # "none" => crossed \/ Len(got) = Len(rows)
  /\ page.bytes > MaxBytes => page.over /\ (page.whole \/ page.kept = 1 \/ crossed)
=============================================================================
