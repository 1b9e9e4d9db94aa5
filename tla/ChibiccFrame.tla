---------------------------- MODULE ChibiccFrame ----------------------------
(***************************************************************************)
(* The frame of a function in chibicc-learn: assign_lvar_offsets and       *)
(* align_to of its codegen.c.  fn.locals is its list, the newest variable  *)
(* first; a variable is known by its id.                                   *)
(***************************************************************************)
EXTENDS Integers, Sequences

(* Errors: align_to rounds down; a variable starts where the last one      *)
(* ended; the size is not rounded.                                         *)
AlignDown(n, align) == (n \div align) * align
AlignTo(n, align) == ((n + align - 1) \div align) * align

(* The offset when the first k variables of vs have their places.          *)
Taken(vs) ==
    LET offset[k \in 0 .. Len(vs)] == IF k = 0 THEN 0 ELSE offset[k - 1] + vs[k].ty.size
    IN offset
SizeOf(vs) == Taken(vs)[Len(vs)]

Position(fn, v) == CHOOSE k \in DOMAIN fn.locals : fn.locals[k].id = v.id
OffsetBefore(fn, v) == 0 - Taken(fn.locals)[Position(fn, v) - 1]
Offset(fn, v) == 0 - Taken(fn.locals)[Position(fn, v)]
FrameBytesUnaligned(fn) == SizeOf(fn.locals)
FrameBytes(fn) == AlignTo(SizeOf(fn.locals), 16)

(* The width of an access to a variable.                                   *)
Width(ty) == IF ty.size = 1 THEN 1 ELSE 8
=============================================================================
