----------------------------- MODULE CodePages ------------------------------
(***************************************************************************)
(* The pages of the process while executeWasmInstr (include/Wasm/          *)
(* Execute.hpp) maps the code of a call and unmaps it.  The rest of the    *)
(* process (libraries, allocator, files) maps and unmaps pages of its own. *)
(***************************************************************************)
EXTENDS Integers

CONSTANTS
  Pages,       \* pages of the address space
  PageBytes,   \* bytes of a page
  Lengths      \* how many bytes of code a call may have

ASSUME PagesAssumption ==
  /\ Pages \in Nat /\ PageBytes \in Nat \ {0} /\ Lengths \subseteq Nat

Page == 0 .. Pages - 1

VARIABLES
  owner,      \* of each page: "free", "code" or "other"
  mapped,     \* between getFunctionPointer and munmap
  base,       \* first page of the mapping
  arraySize   \* bytes asked for

pagesVars == << owner, mapped, base, arraySize >>

\* The pages that hold a byte of the size bytes from the start of a page on:
\* what mmap and munmap act on.
Span(start, size) == { p \in Page : start <= p /\ (p - start) * PageBytes < size }

\* mmap may choose any place that is free and large enough; it refuses a
\* length of 0.
Fits(start, size) ==
  /\ size > 0
  /\ \A p \in Span(start, size) : owner[p] = "free"
  /\ size <= (Pages - start) * PageBytes

PagesInit ==
  /\ owner \in [Page -> {"free", "other"}]
  /\ mapped = FALSE /\ base = 0 /\ arraySize = 0

\* getFunctionPointer
GetFunctionPointer ==
  /\ ~mapped
  /\ arraySize' \in Lengths
  /\ base' \in { start \in Page : Fits(start, arraySize') }
  /\ mapped' = TRUE
  /\ owner' = [p \in Page |-> IF p \in Span(base', arraySize') THEN "code" ELSE owner[p]]

\* Mutant: the length is halved as in getFunctionPointer, and halved again.
MunmapSizeHalved == arraySize \div 2

\* Mutant: a page more, for the remainder of the division.
MunmapSizePadded == 2 * arraySize + PageBytes

\* The length munmap is given: the text has two characters for a byte.
MunmapSize == 2 * arraySize

Munmap ==
  /\ mapped
  /\ mapped' = FALSE
  /\ owner' = [p \in Page |-> IF p \in Span(base, MunmapSize) THEN "free" ELSE owner[p]]
  /\ UNCHANGED << base, arraySize >>

\* External: the rest of the process maps a free page, unmaps one it has.
OtherMaps ==
  /\ \E p \in Page : owner[p] = "free" /\ owner' = [owner EXCEPT ![p] = "other"]
  /\ UNCHANGED << mapped, base, arraySize >>

OtherUnmaps ==
  /\ \E p \in Page : owner[p] = "other" /\ owner' = [owner EXCEPT ![p] = "free"]
  /\ UNCHANGED << mapped, base, arraySize >>

PagesNext == GetFunctionPointer \/ Munmap \/ OtherMaps \/ OtherUnmaps

PagesSpec == PagesInit /\ [][PagesNext]_pagesVars

-----------------------------------------------------------------------------
\* No page of code outlives its call, and during a call all its pages, and
\* no others, are mapped: a driver that calls thousands of times neither
\* runs out of pages nor leaves executable ones behind (getFunctionPointer,
\* munmap).
CodePagesOfCall ==
  { p \in Page : owner[p] = "code" } = IF mapped THEN Span(base, arraySize) ELSE {}

\* A call takes no page from the rest of the process: mmap never does, and
\* munmap, whose length is twice the code's, does not when the code fills no
\* more than half a page.
OthersKept ==
  [][/\ mapped' # mapped
     /\ mapped => 2 * arraySize <= PageBytes
     => \A p \in Page : owner[p] = "other" => owner'[p] = "other"]_pagesVars
=============================================================================
