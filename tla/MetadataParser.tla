---------------------------- MODULE MetadataParser ----------------------------
(***************************************************************************)
(* The .rs.info parse of the compatibility build's init() in              *)
(* src/cpu_ref/rsCpuScript.cpp: strgets, the sscanf of each count line,   *)
(* the per-section loops and the strncat that forms a kernel's ".expand"  *)
(* name.  The parse runs with the init mutex held and touches only the    *)
(* script's own members, so it is a pure function of the library: its     *)
(* .rs.info text and the symbols dlsym finds in it.                       *)
(*                                                                         *)
(* A text is a sequence of one-character strings.  Each header literal    *)
(* (EXPORT_VAR_STR and the others) is one character of the model, and     *)
(* MAXLINE is a constant, so lines reach the buffer bound at small sizes. *)
(* The compiler that writes .rs.info is outside this repository; Render   *)
(* gives the layout init() expects, from the format strings it scans.     *)
(***************************************************************************)
EXTENDS Naturals, Sequences, SequencesExt

CONSTANT Maxline   \* MAXLINE: the size of the line and tmpName buffers

ASSUME Maxline \in Nat /\ Maxline >= 2

NL == "\n"
Blank == " "
Digits == <<"0", "1", "2", "3", "4", "5", "6", "7", "8", "9">>
DigitSet == ToSet(Digits)
DigitValue(c) == SelectInSeq(Digits, LAMBDA d : d = c) - 1
Spaces == {Blank, NL}

(* EXPORT_VAR_STR, EXPORT_FUNC_STR, EXPORT_FOREACH_STR, OBJECT_SLOT_STR. *)
VarHdr == "V"
FuncHdr == "F"
ForEachHdr == "K"
ObjHdr == "O"

Expand == <<".", "e", "x", "p", "a", "n", "d">>

-----------------------------------------------------------------------------
(* Mutant: the copy loop fills all size bytes with characters, leaving   *)
(* no room for the terminator.                                           *)
RECURSIVE StrgetsCopyFull(_, _, _)
StrgetsCopyFull(s, str, size) ==
  IF Len(s) = size THEN [line |-> s, rest |-> str]
  ELSE IF Head(str) = NL THEN [line |-> Append(s, NL), rest |-> Tail(str)]
  ELSE StrgetsCopyFull(Append(s, Head(str)), Tail(str), size)

(* Mutant: an overlong line is cut and the rest of it is discarded.      *)
RECURSIVE StrgetsCopyDiscard(_, _, _)
StrgetsCopyDiscard(s, str, size) ==
  IF Len(s) = size - 1
  THEN [line |-> s,
        rest |-> SubSeq(str, SelectInSeq(str, LAMBDA c : c = NL) + 1, Len(str))]
  ELSE IF Head(str) = NL THEN [line |-> Append(s, NL), rest |-> Tail(str)]
  ELSE StrgetsCopyDiscard(Append(s, Head(str)), Tail(str), size)

(* The for loop of strgets: copy a character and advance *ppstr until a  *)
(* newline has been copied or size - 1 characters have; the rest of a    *)
(* longer line is left for the next call.  Every text ends in a newline, *)
(* so the '\0' branch (which would leave *ppstr past the terminator) is  *)
(* never taken.                                                           *)
RECURSIVE StrgetsCopy(_, _, _)
StrgetsCopy(s, str, size) ==
  IF Len(s) = size - 1 THEN [line |-> s, rest |-> str]
  ELSE IF Head(str) = NL THEN [line |-> Append(s, NL), rest |-> Tail(str)]
  ELSE StrgetsCopy(Append(s, Head(str)), Tail(str), size)

(* strgets(line, MAXLINE, &rsInfo): NULL once the text is used up.        *)
Got(r) == [ok |-> TRUE, line |-> r.line, rest |-> r.rest]

Strgets(str) ==
  IF str = <<>> THEN [ok |-> FALSE, line |-> <<>>, rest |-> str]
  ELSE Got(StrgetsCopy(<<>>, str, Maxline))

(* strrchr(line, '\n') and cut there.                                     *)
CutAt(line, k) == IF k = 0 THEN line ELSE SubSeq(line, 1, k - 1)

StripNewline(line) == CutAt(line, SelectLastInSeq(line, LAMBDA c : c = NL))

(* The end of the run that starts at i of characters in S (in = TRUE) or *)
(* not in S (in = FALSE).                                                 *)
RunEnd(line, i, S, in) ==
  CHOOSE j \in i..Len(line) + 1 :
    /\ \A k \in i..j - 1 : (line[k] \in S) = in
    /\ j > Len(line) \/ (line[j] \in S) # in

(* sscanf's %u / %zu at position i: skip white space, then one digit or  *)
(* more.                                                                  *)
Unsigned(line, a, b) ==
  [ok |-> a < b, next |-> b,
   val |-> FoldLeft(LAMBDA n, c : 10 * n + DigitValue(c), 0, SubSeq(line, a, b - 1))]

UnsignedAt(line, a) == Unsigned(line, a, RunEnd(line, a, DigitSet, TRUE))

ScanUnsigned(line, i) == UnsignedAt(line, RunEnd(line, i, Spaces, TRUE))

(* sscanf(line, HDR "%zu", &count) == 1.                                 *)
ScanCount(line, hdr) ==
  IF line # <<>> /\ line[1] = hdr THEN ScanUnsigned(line, 2)
  ELSE [ok |-> FALSE, next |-> 1, val |-> 0]

(* sscanf(line, "%u - %500s", &tmpSig, tmpName) == 2, read backwards:  *)
(* the name is the non-blank run after the dash, at most the width of %s *)
(* (MAXLINE, by MAKE_STR(MAXLINE)) characters; the signature is the      *)
(* unsigned before it.                                                    *)
Width(t) == IF Len(t) > Maxline THEN SubSeq(t, 1, Maxline) ELSE t

KernelScanned(n, tok) == [ok |-> n.ok /\ tok # <<>>, sig |-> n.val, name |-> tok]

KernelToken(n, s) ==
  KernelScanned(n, Width(SubSeq(s, 1, RunEnd(s, 1, Spaces, FALSE) - 1)))

KernelAfterNumber(line, n, d) ==
  IF d <= Len(line) /\ line[d] = "-"
  THEN KernelToken(n, SubSeq(line, RunEnd(line, d + 1, Spaces, TRUE), Len(line)))
  ELSE [ok |-> FALSE, sig |-> n.val, name |-> <<>>]

ScanKernel(line) ==
  LET n == ScanUnsigned(line, 1)
  IN KernelAfterNumber(line, n, RunEnd(line, n.next, Spaces, TRUE))

(* strncat(tmpName, ".expand", MAXLINE-1-strlen(tmpName)): the limit is a *)
(* size_t, so a negative difference wraps to a huge one.                  *)
Strncat(tmp) ==
  LET room == Maxline - 1 - Len(tmp)
      n == IF room < 0 \/ room >= Len(Expand) THEN Len(Expand) ELSE room
  IN tmp \o SubSeq(Expand, 1, n)

-----------------------------------------------------------------------------
(* The parse state: what is left of rsInfo, the line buffer, the section  *)
(* that failed (0: none yet), the counts and symbol tables filled so far, *)
(* and whether any write went past the end of its buffer.                 *)
Start(lib) ==
  [rest |-> lib.text, exports |-> lib.exports, got |-> FALSE, line |-> <<>>,
   fail |-> 0, overflow |-> FALSE,
   varCount |-> 0, funcCount |-> 0, forEachCount |-> 0, objectSlotCount |-> 0,
   fieldNames |-> <<>>, funcNames |-> <<>>, sigs |-> <<>>, kernelNames |-> <<>>,
   objects |-> {}]

(* One strgets into line[MAXLINE], and the bytes it writes there.         *)
GetsInto(st, g) ==
  [st EXCEPT !.rest = g.rest, !.got = g.ok, !.line = g.line,
             !.overflow = @ \/ (g.ok /\ Len(g.line) + 1 > Maxline)]

Gets(st) == GetsInto(st, Strgets(st.rest))

Fail(st, sec) == [st EXCEPT !.fail = sec]

(* A count line: strgets, then sscanf(line, HDR "%zu", &count); either   *)
(* failing is `goto error`.                                               *)
CountValue(g, c, field, sec) ==
  IF ~c.ok THEN Fail(g, sec) ELSE [g EXCEPT ![field] = c.val]

CountLine(g, hdr, field, sec) ==
  IF ~g.got THEN Fail(g, sec) ELSE CountValue(g, ScanCount(g.line, hdr), field, sec)

CountSection(st, hdr, field, sec) == CountLine(Gets(st), hdr, field, sec)

(* A variable name: its dlsym may fail without failing the parse.        *)
VarLine(g) ==
  IF ~g.got THEN Fail(g, 2)
  ELSE [g EXCEPT !.fieldNames = Append(@, StripNewline(g.line))]

VarName(st, i) == VarLine(Gets(st))

(* An invokable function name: dlsym must find it.                        *)
FuncLine(g, name) ==
  IF ~g.got \/ name \notin g.exports THEN Fail(g, 4)
  ELSE [g EXCEPT !.funcNames = Append(@, name)]

FuncName(st, i) == FuncLine(Gets(st), StripNewline(Gets(st).line))

(* A kernel line "sig - name": the name gets ".expand" appended and is     *)
(* looked up; only slot 0 (root) may be missing.  tmpName[MAXLINE] takes *)
(* both the scanned name and the appended one.                           *)
KernelLookup(g, i, k, tmp) ==
  [g EXCEPT !.sigs = Append(@, k.sig), !.kernelNames = Append(@, tmp),
            !.overflow = @ \/ Len(k.name) + 1 > Maxline \/ Len(tmp) + 1 > Maxline,
            !.fail = IF i # 0 /\ tmp \notin g.exports THEN 6 ELSE 0]

KernelLine(g, i, k) ==
  IF ~g.got \/ ~k.ok THEN Fail(g, 6) ELSE KernelLookup(g, i, k, Strncat(k.name))

Kernel(st, i) == KernelLine(Gets(st), i, ScanKernel(Gets(st).line))

(* mFieldIsObject[v] = true: a write past the varCount flags the array   *)
(* holds (or into the NULL it is when varCount is 0) overflows it.        *)
MarkObject(g, v) ==
  [g EXCEPT !.objects = @ \cup {v}, !.overflow = @ \/ v >= g.varCount]

(* Mutant: the varNum < varCount check is dropped.                       *)
ObjectIndexUnchecked(g, n) ==
  IF ~g.got \/ ~n.ok THEN Fail(g, 8) ELSE MarkObject(g, n.val)

(* An object slot: mFieldIsObject[varNum] = true, for an index in range;  *)
(* a larger one is ignored.                                               *)
ObjectIndex(g, n) ==
  IF ~g.got \/ ~n.ok THEN Fail(g, 8)
  ELSE IF n.val < g.varCount THEN MarkObject(g, n.val)
  ELSE g

ObjectSlot(st, i) == ObjectIndex(Gets(st), ScanUnsigned(Gets(st).line, 1))

(* The body of section k's for loop, run for i in 0..count-1 while no   *)
(* goto error has been taken.                                             *)
LoopBody(st, k, i) ==
  CASE k = 2 -> VarName(st, i)
    [] k = 4 -> FuncName(st, i)
    [] k = 6 -> Kernel(st, i)
    [] k = 8 -> ObjectSlot(st, i)

Loop(st, k, count) ==
  FoldLeft(LAMBDA acc, i : IF acc.fail # 0 THEN acc ELSE LoopBody(acc, k, i),
           st, [j \in 1..count |-> j - 1])

(* Section k of the parse, in order: 1 var count, 2 var names, 3 func    *)
(* count, 4 func names, 5 forEach count, 6 forEach lines, 7 object slot   *)
(* count, 8 object slots.  fail is the section of the first goto error.  *)
Section(st, k) ==
  IF st.fail # 0 THEN st
  ELSE CASE k = 1 -> CountSection(st, VarHdr, "varCount", 1)
         [] k = 2 -> Loop(st, 2, st.varCount)
         [] k = 3 -> CountSection(st, FuncHdr, "funcCount", 3)
         [] k = 4 -> Loop(st, 4, st.funcCount)
         [] k = 5 -> CountSection(st, ForEachHdr, "forEachCount", 5)
         [] k = 6 -> Loop(st, 6, st.forEachCount)
         [] k = 7 -> CountSection(st, ObjHdr, "objectSlotCount", 7)
         [] k = 8 -> Loop(st, 8, st.objectSlotCount)

Parse(lib) == FoldLeft(Section, Start(lib), [k \in 1..8 |-> k])

-----------------------------------------------------------------------------
(* The layout init() reads, as the compiler writes it for a program: each *)
(* count line, then one line per entry; a kernel line is "sig - name".    *)
(* A program's library exports its variables but those the compiler     *)
(* optimized away (p.gone), its functions and each kernel's expanded     *)
(* entry point.                                                           *)
Line(chars) == chars \o <<NL>>
Number(n) == <<Digits[n + 1]>>

Render(p) ==
  FlattenSeq(
    << Line(<<VarHdr>> \o Number(Len(p.vars))) >>
    \o [i \in 1..Len(p.vars) |-> Line(p.vars[i])]
    \o << Line(<<FuncHdr>> \o Number(Len(p.funcs))) >>
    \o [i \in 1..Len(p.funcs) |-> Line(p.funcs[i])]
    \o << Line(<<ForEachHdr>> \o Number(Len(p.kernels))) >>
    \o [i \in 1..Len(p.kernels) |->
           Line(Number(p.kernels[i].sig) \o <<Blank, "-", Blank>>
                \o p.kernels[i].name)]
    \o << Line(<<ObjHdr>> \o Number(Len(p.objSlots))) >>
    \o [i \in 1..Len(p.objSlots) |-> Line(Number(p.objSlots[i]))])

Exports(p) ==
  (ToSet(p.vars) \ p.gone) \cup ToSet(p.funcs)
  \cup {p.kernels[i].name \o Expand : i \in 1..Len(p.kernels)}

Library(p) == [text |-> Render(p), exports |-> Exports(p), prog |-> p]

(* The symbol table a successful parse should build for the program: its  *)
(* variables, functions and kernel signatures, the ".expand" entry point  *)
(* of every kernel (for root, slot 0, the name looked up lies between the *)
(* bare name and the expanded one), and the object slots that name a      *)
(* variable.                                                              *)
TableAsWritten(m, p) ==
  /\ m.fieldNames = p.vars
  /\ m.funcNames = p.funcs
  /\ m.sigs = [i \in 1..Len(p.kernels) |-> p.kernels[i].sig]
  /\ Len(m.kernelNames) = Len(p.kernels)
  /\ \A i \in 2..Len(p.kernels) : m.kernelNames[i] = p.kernels[i].name \o Expand
  /\ \A i \in 1..Len(p.kernels) \cap {1} :
       /\ IsPrefix(p.kernels[1].name, m.kernelNames[1])
       /\ IsPrefix(m.kernelNames[1], p.kernels[1].name \o Expand)
  /\ m.objects = {v \in ToSet(p.objSlots) : v < Len(p.vars)}

(* The object-typed globals of a library's program that it exports.     *)
ObjectGlobals(lib) ==
  {i \in ToSet(lib.prog.objSlots) :
     i < Len(lib.prog.vars) /\ lib.prog.vars[i + 1] \in lib.exports}
=============================================================================
