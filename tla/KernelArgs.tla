------------------------------ MODULE KernelArgs ------------------------------
(***************************************************************************)
(* From the arguments of a launch to the parameters the kernel reads.      *)
(* The interpreter host target packs them with ArgumentPacker; the native  *)
(* one packs every size and stride (packNativeHostArgs), unpacks them in   *)
(* the generated entry (ArgumentUnpacker) and builds the parameter table   *)
(* in generated code (KernelParamsBuilder).  The kernel's formals are, per *)
(* tensor, its pointer, dynamic sizes and dynamic strides; what is static  *)
(* is compiled in.                                                         *)
(***************************************************************************)
EXTENDS Shapes, FiniteSets, FiniteSetsExt

CONSTANTS
  Signatures, \* KernelMetadata::args of the compiled kernels
  Operands,   \* the PackedArgs a caller may pass
  MaxI32,     \* INT32_MAX
  MaxI64      \* INT64_MAX

Undefined == "undefined" \* a value read through a null pointer or out of bounds

\* A ScalarArgDesc or a TensorArgDesc; explicit: it has strides of its own,
\* otherwise it is contiguous (row-major).
Scalar(type) == [kind |-> "scalar", type |-> type, shape |-> <<>>, explicit |-> FALSE, strides |-> <<>>]
Tensor(shape) == [kind |-> "tensor", type |-> "f32", shape |-> shape, explicit |-> FALSE, strides |-> <<>>]
Strided(shape, strides) == [Tensor(shape) EXCEPT !.explicit = TRUE, !.strides = strides]

\* What TensorArgDesc::create and ScalarArgDesc::create accept.
IsDesc(desc) ==
  /\ desc.kind \in {"scalar", "tensor"}
  /\ desc.explicit \in BOOLEAN
  /\ desc.shape \in Seq(Nat \cup {Dynamic})
  /\ desc.strides \in Seq(Nat \cup {Dynamic})
  /\ desc.explicit => Len(desc.strides) = Len(desc.shape)
  /\ desc.kind = "scalar" => desc.shape = <<>> /\ ~desc.explicit

\* An Any: nothing, an opaque pointer, a TensorView whose shape and strides may
\* be null, or a scalar with its element type.
IsOperand(a) ==
  /\ DOMAIN a = {"kind", "type", "null", "hasShape", "shape", "hasStride", "strides"}
  /\ a.kind \in {"none", "pointer", "tensor", "scalar"}
  /\ {a.null, a.hasShape, a.hasStride} \subseteq BOOLEAN
  /\ a.shape \in Seq(Int) /\ a.strides \in Seq(Int)
  /\ a.hasStride => Len(a.strides) = Len(a.shape)

ASSUME SignatureAssumption ==
  \A sig \in Signatures : Len(sig) \in Nat /\ DOMAIN sig = 1 .. Len(sig) /\ \A i \in DOMAIN sig : IsDesc(sig[i])
ASSUME OperandAssumption ==
  \A ops \in Operands : Len(ops) \in Nat /\ DOMAIN ops = 1 .. Len(ops) /\ \A i \in DOMAIN ops : IsOperand(ops[i])
ASSUME WidthAssumption == MaxI32 \in Nat /\ MaxI64 \in Nat /\ MaxI32 <= MaxI64

VARIABLES
  signature, \* the artifact's launch metadata
  native,    \* the artifact has a native host module
  args,      \* the arguments of the call
  call,      \* "idle", "launch" (in the native entry), "unpacked", "check"
  slots,     \* ArgumentPacker's output, or packNativeHostArgs'
  views,     \* the memref descriptors the native entry has unpacked
  params,    \* the values of the kernel's formals
  result     \* "none", "ok", "invalid_argument", "host_error"; and supported

vars == <<signature, native, args, call, slots, views, params, result>>

-----------------------------------------------------------------------------
(* The signature.                                                          *)

IsScalar(desc) == desc.kind = "scalar"
Rank(desc) == Len(desc.shape)

\* TensorArgDesc::totalArgs and ScalarArgDesc::totalArgs.
TotalArgs(desc) ==
  1 + Len(DynamicDims(desc.shape)) + (IF desc.explicit THEN Len(DynamicDims(desc.strides)) ELSE 0)

NumKernelArgs(sig) == SumOf([i \in DOMAIN sig |-> TotalArgs(sig[i])])

\* The row-major stride of dimension d.
Contiguous(shape, d) == Product(SubSeq(shape, d + 1, Len(shape)))

\* What i32 holds of a number: a parameter reads the low half of its 64-bit slot,
\* and a product of sizes keeps the low half, in whatever order it is formed.
ToI32(n) == LET w == n % (2 * (MaxI32 + 1)) IN IF w > MaxI32 THEN w - 2 * (MaxI32 + 1) ELSE w

-----------------------------------------------------------------------------
(* ArgumentPacker, over RuntimeOperandAccessor.                            *)

HasPointer(a) ==
  \/ a.kind = "scalar"
  \/ a.kind \in {"pointer", "tensor"} /\ ~a.null

HasShape(a) == a.kind = "tensor" /\ a.hasShape

ShapeAt(a, d) == IF d \in DOMAIN a.shape THEN a.shape[d] ELSE Undefined
StrideAt(a, d) == IF a.hasStride /\ d \in DOMAIN a.strides THEN a.strides[d] ELSE Undefined

\* Mutants: static sizes are packed too, and strides come before sizes.
OperandSlotsAllSizes(desc, i, a) ==
  LET strides == IF desc.explicit /\ a.kind = "tensor" THEN DynamicDims(desc.strides) ELSE <<>>
  IN IF IsScalar(desc) THEN << <<"bits", i>> >>
     ELSE << <<"address", i>> >>
          \o (IF HasShape(a) THEN [d \in DOMAIN desc.shape |-> ShapeAt(a, d)] ELSE <<>>)
          \o [k \in DOMAIN strides |-> StrideAt(a, strides[k])]

OperandSlotsSwapped(desc, i, a) ==
  LET sizes == IF HasShape(a) THEN DynamicDims(desc.shape) ELSE <<>>
      strides == IF desc.explicit /\ a.kind = "tensor" THEN DynamicDims(desc.strides) ELSE <<>>
  IN IF IsScalar(desc) THEN << <<"bits", i>> >>
     ELSE << <<"address", i>> >>
          \o [k \in DOMAIN strides |-> StrideAt(a, strides[k])]
          \o [k \in DOMAIN sizes |-> ShapeAt(a, sizes[k])]

\* The slots one operand writes: sizes only of a view that has a shape, strides
\* only of a view.
OperandSlots(desc, i, a) ==
  LET sizes == IF HasShape(a) THEN DynamicDims(desc.shape) ELSE <<>>
      strides == IF desc.explicit /\ a.kind = "tensor" THEN DynamicDims(desc.strides) ELSE <<>>
  IN IF IsScalar(desc) THEN << <<"bits", i>> >>
     ELSE << <<"address", i>> >>
          \o [k \in DOMAIN sizes |-> ShapeAt(a, sizes[k])]
          \o [k \in DOMAIN strides |-> StrideAt(a, strides[k])]

\* packArgs: -1, or the slots written.
PackFails(sig, ops) ==
  \/ Len(ops) # Len(sig)
  \/ \E i \in DOMAIN sig : ~HasPointer(ops[i])

PackArgs(sig, ops) == FlattenSeq([i \in DOMAIN sig |-> OperandSlots(sig[i], i, ops[i])])

\* The zero-initialized table the slots are written into.
PaddedSlots(sig, s) == [k \in 1 .. NumKernelArgs(sig) |-> IF k \in DOMAIN s THEN s[k] ELSE 0]

-----------------------------------------------------------------------------
(* packNativeHostArgs.                                                     *)

\* The size a tensor argument has in dimension d: of the view, or of the
\* compiled shape when an opaque pointer is passed.
NativeShape(desc, a) == IF a.kind = "tensor" THEN a.shape ELSE desc.shape

NativeStride(desc, a, d) ==
  CASE a.kind = "tensor" /\ a.hasStride -> a.strides[d]
    [] a.kind = "pointer" /\ desc.explicit -> desc.strides[d]
    [] OTHER -> Contiguous(NativeShape(desc, a), d)

ShapeMatches(desc, a) ==
  \A d \in 1 .. Rank(desc) :
    /\ NativeShape(desc, a)[d] >= 0
    /\ desc.shape[d] \in {Dynamic, NativeShape(desc, a)[d]}

\* Mutant: the strides of a contiguous tensor are not compared.
StrideMatchesExplicitOnly(desc, a) ==
  \A d \in 1 .. Rank(desc) :
    LET stride == NativeStride(desc, a, d)
    IN /\ stride >= 0
       /\ \/ NativeShape(desc, a)[d] = 1
          \/ ~desc.explicit
          \/ desc.strides[d] \in {Dynamic, stride}

\* A singleton dimension never advances the address: its stride may differ.
StrideMatches(desc, a) ==
  \A d \in 1 .. Rank(desc) :
    LET stride == NativeStride(desc, a, d)
    IN /\ stride >= 0
       /\ \/ NativeShape(desc, a)[d] = 1
          \/ IF desc.explicit THEN desc.strides[d] \in {Dynamic, stride}
             ELSE stride = Contiguous(NativeShape(desc, a), d)

StrideOverflows(desc, a) ==
  \E d \in 2 .. Rank(desc) : Product(SubSeq(NativeShape(desc, a), d, Rank(desc))) > MaxI64

NativeAccepts(desc, a) ==
  IF IsScalar(desc)
  THEN a.kind = "scalar" /\ a.type = desc.type
  ELSE /\ a.kind \in {"tensor", "pointer"}
       /\ a.kind = "tensor" => Len(a.shape) = Rank(desc) /\ (a.hasShape \/ Rank(desc) = 0)
       /\ ShapeMatches(desc, a)
       /\ StrideMatches(desc, a)
       /\ ~StrideOverflows(desc, a)

PackNativeHostArgsFails(sig, ops) ==
  \/ Len(ops) # Len(sig)
  \/ \E i \in DOMAIN sig : ~NativeAccepts(sig[i], ops[i])

\* Mutant: strides are packed only of a tensor that has them in its type.
NativeSlotsExplicitStrides(desc, i, a) ==
  IF IsScalar(desc) THEN << <<"bits", i>> >>
  ELSE << <<"address", i>> >> \o NativeShape(desc, a)
       \o (IF desc.explicit THEN [d \in 1 .. Rank(desc) |-> NativeStride(desc, a, d)] ELSE <<>>)

\* A tensor takes 1 + 2 * rank slots whether its layout is static or not.
NativeSlots(desc, i, a) ==
  IF IsScalar(desc) THEN << <<"bits", i>> >>
  ELSE << <<"address", i>> >> \o NativeShape(desc, a)
       \o [d \in 1 .. Rank(desc) |-> NativeStride(desc, a, d)]

PackNativeHostArgs(sig, ops) == FlattenSeq([i \in DOMAIN sig |-> NativeSlots(sig[i], i, ops[i])])

-----------------------------------------------------------------------------
(* The generated native host code.                                         *)

\* ArgumentUnpacker reads its slots in the order of the entry's types.
EntrySlots(desc) == IF IsScalar(desc) THEN 1 ELSE 1 + 2 * Rank(desc)
EntryOffset(sig, i) == SumOf([j \in 1 .. i - 1 |-> EntrySlots(sig[j])])

\* Slots past the end are not there: the entry would read whatever follows.
ReadSlot(s, k) == IF k \in DOMAIN s THEN s[k] ELSE Undefined

Unpack(sig, s) ==
  [i \in DOMAIN sig |->
     LET base == EntryOffset(sig, i) + 1
         rank == Rank(sig[i])
     IN [base    |-> ReadSlot(s, base),
         sizes   |-> [d \in 1 .. rank |-> ReadSlot(s, base + d)],
         strides |-> [d \in 1 .. rank |-> ReadSlot(s, base + rank + d)]]]

\* KernelParamsBuilder: the dynamic fields of a memref, each of which must fit
\* into 32 bits.  A memref without explicit strides has the identity layout.
NarrowedSizes(desc, view) ==
  LET dims == DynamicDims(desc.shape) IN [k \in DOMAIN dims |-> view.sizes[dims[k]]]
NarrowedStrides(desc, view) ==
  LET dims == IF desc.explicit THEN DynamicDims(desc.strides) ELSE <<>>
  IN [k \in DOMAIN dims |-> view.strides[dims[k]]]

NarrowingFails(sig, vs) ==
  \E i \in DOMAIN sig :
    \/ \E k \in DOMAIN NarrowedSizes(sig[i], vs[i]) : NarrowedSizes(sig[i], vs[i])[k] \notin 0 .. MaxI32
    \/ \E k \in DOMAIN NarrowedStrides(sig[i], vs[i]) :
         NarrowedStrides(sig[i], vs[i])[k] \notin -(MaxI32 + 1) .. MaxI32

KernelParams(sig, vs) ==
  FlattenSeq([i \in DOMAIN sig |->
    <<vs[i].base>> \o NarrowedSizes(sig[i], vs[i]) \o NarrowedStrides(sig[i], vs[i])])

-----------------------------------------------------------------------------
(* The calls.                                                              *)

Init ==
  /\ signature \in Signatures
  /\ native \in BOOLEAN
  /\ args \in Operands
  /\ call = "idle"
  /\ slots = <<>> /\ views = <<>> /\ params = <<>>
  /\ result = [status |-> "none", supported |-> FALSE]

Return(status) ==
  /\ call' = "idle"
  /\ result' = [result EXCEPT !.status = status]

\* launch, interpreter: pack into zero-initialized slots; all of them become
\* parameters, packed or not.
LaunchInterpreted ==
  /\ call = "idle" /\ result.status = "none" /\ ~native
  /\ IF PackFails(signature, args)
     THEN Return("invalid_argument") /\ UNCHANGED <<slots, params>>
     ELSE /\ slots' = PackArgs(signature, args)
          /\ params' = PaddedSlots(signature, slots')
          /\ Return("ok")
  /\ UNCHANGED <<signature, native, args, views>>

\* launch, native: pack and invoke the entry.
LaunchNative ==
  /\ call = "idle" /\ result.status = "none" /\ native
  /\ IF PackNativeHostArgsFails(signature, args)
     THEN Return("invalid_argument") /\ UNCHANGED slots
     ELSE /\ slots' = PackNativeHostArgs(signature, args)
          /\ call' = "launch"
          /\ UNCHANGED result
  /\ UNCHANGED <<signature, native, args, views, params>>

UnpackArguments ==
  /\ call = "launch"
  /\ views' = Unpack(signature, slots)
  /\ call' = "unpacked"
  /\ UNCHANGED <<signature, native, args, slots, params, result>>

BuildKernelParams ==
  /\ call = "unpacked"
  /\ IF NarrowingFails(signature, views)
     THEN Return("host_error") /\ UNCHANGED params
     ELSE params' = KernelParams(signature, views) /\ Return("ok")
  /\ UNCHANGED <<signature, native, args, slots, views>>

\* checkSupport, and what mlirTensorIRRuntimeKernelCheckSupport makes of it: it
\* succeeds when the kernel answers Ok or ConstraintNotSatisfied.
CheckSupport ==
  /\ call = "idle" /\ result.status = "none"
  /\ call' = "check"
  /\ LET ok == ~native \/ ~PackNativeHostArgsFails(signature, args)
     IN result' = [status |-> IF ok THEN "ok" ELSE "invalid_argument", supported |-> ok]
  /\ UNCHANGED <<signature, native, args, slots, views, params>>

Next == LaunchInterpreted \/ LaunchNative \/ UnpackArguments \/ BuildKernelParams \/ CheckSupport

Spec == Init /\ [][Next]_vars

-----------------------------------------------------------------------------
(* What the kernel makes of its parameters.                                *)

FormalOffset(sig, i) == SumOf([j \in 1 .. i - 1 |-> TotalArgs(sig[j])])

Formal(i, k) == LET v == params[FormalOffset(signature, i) + k]
                IN IF v \in Int THEN ToI32(v) ELSE v

\* The size and stride the kernel computes with: compiled in, or a parameter.
KernelSize(i, d) ==
  LET desc == signature[i]
      dynamic == DynamicDims(desc.shape)
  IN IF desc.shape[d] # Dynamic THEN desc.shape[d]
     ELSE Formal(i, 1 + (CHOOSE k \in DOMAIN dynamic : dynamic[k] = d))

\* A contiguous tensor's stride is compiled in where the sizes behind it are;
\* elsewhere the kernel multiplies them, in i32.
IsMultiplied(desc, d) == ~desc.explicit /\ \E e \in d + 1 .. Rank(desc) : desc.shape[e] = Dynamic

KernelStride(i, d) ==
  LET desc == signature[i]
      dynamic == DynamicDims(desc.strides)
      contiguous == Contiguous([e \in 1 .. Rank(desc) |-> KernelSize(i, e)], d)
  IN CASE IsMultiplied(desc, d) -> ToI32(contiguous)
       [] ~desc.explicit /\ ~IsMultiplied(desc, d) -> contiguous
       [] desc.explicit /\ desc.strides[d] # Dynamic -> desc.strides[d]
       [] OTHER -> Formal(i, 1 + Len(DynamicDims(desc.shape))
                             + (CHOOSE k \in DOMAIN dynamic : dynamic[k] = d))

ViewStride(a, d) == IF a.hasStride THEN a.strides[d] ELSE Contiguous(a.shape, d)

\* No check of either host target is about this product: the sizes are in range.
ProductWraps(desc, a, d) == IsMultiplied(desc, d) /\ ViewStride(a, d) > MaxI32

\* The kernel addresses argument i as the view passed for it does: the same
\* base, the same extents, and the same offset for every dimension it advances,
\* except that of a product that wraps only the low 32 bits are the view's.
AddressesAs(i, a) ==
  /\ params[FormalOffset(signature, i) + 1] = <<"address", i>>
  /\ \A d \in 1 .. Rank(signature[i]) :
       /\ KernelSize(i, d) = a.shape[d]
       /\ a.shape[d] > 1 =>
            KernelStride(i, d) = IF ProductWraps(signature[i], a, d) THEN ToI32(ViewStride(a, d))
                                 ELSE ViewStride(a, d)

Launched == result.status = "ok" /\ call = "idle"

-----------------------------------------------------------------------------
(* The inductive invariant: what each step of a launch leaves is a function *)
(* of the signature and the arguments.                                     *)

TypeOK ==
  /\ signature \in Signatures /\ args \in Operands /\ native \in BOOLEAN
  /\ call \in {"idle", "launch", "unpacked", "check"}
  /\ result \in [status : {"none", "ok", "invalid_argument", "host_error"}, supported : BOOLEAN]

InterpretedInv ==
  /\ call \in {"idle", "check"}
  /\ slots # <<>> \/ Launched =>
       /\ ~PackFails(signature, args)
       /\ slots = PackArgs(signature, args)
       /\ params = PaddedSlots(signature, slots)

NativeInv ==
  /\ slots # <<>> \/ Launched \/ call \in {"launch", "unpacked"} =>
       ~PackNativeHostArgsFails(signature, args) /\ slots = PackNativeHostArgs(signature, args)
  /\ Launched \/ call = "unpacked" => views = Unpack(signature, slots)
  /\ Launched => ~NarrowingFails(signature, views) /\ params = KernelParams(signature, views)

ArgsInv == TypeOK /\ IF native THEN NativeInv ELSE InterpretedInv

-----------------------------------------------------------------------------
(* Properties.                                                             *)

\* Whatever the caller passes, ArgumentPacker writes no slot beyond those of
\* the compiled signature.
PackStaysInBounds == ~native => Len(slots) <= NumKernelArgs(signature)

\* packNativeHostArgs writes exactly the slots the generated entry reads.
NativeSlotsMatchEntry ==
  native /\ slots # <<>> => Len(slots) = SumOf([i \in DOMAIN signature |-> EntrySlots(signature[i])])

\* Whatever views the caller passes, a launch the native path accepts has the
\* kernel address each of them as its own shape and strides say: mismatches,
\* sizes beyond 32 bits and explicit strides that do not fit are refused, only the
\* stride of a singleton dimension may differ, and only a stride that the kernel
\* itself multiplies (OutlinedKernelImpl.cpp:332) may wrap.
NativeAddressesAgree ==
  Launched /\ native => \A i \in DOMAIN args : args[i].kind = "tensor" => AddressesAs(i, args[i])

\* The interpreter validates nothing, but for views of the compiled shape and
\* strides, within 32 bits, that have what the signature needs (TensorIR.h:212),
\* the kernel addresses them as they are, and scalars arrive in their own slot.
\* A contiguous view only has its sizes within 32 bits: their product may be
\* beyond, and there, as on the native path, the kernel's stride wraps.
MatchingOperands ==
  \A i \in DOMAIN signature :
    /\ NativeAccepts(signature[i], args[i])
    /\ args[i].kind = "pointer" => DynamicDims(signature[i].shape) = <<>>
    /\ args[i].kind = "tensor" =>
         /\ args[i].hasStride \/ ~signature[i].explicit
         /\ \A d \in DOMAIN args[i].shape : args[i].shape[d] <= MaxI32
         /\ signature[i].explicit => \A d \in DOMAIN args[i].strides : args[i].strides[d] <= MaxI32

InterpreterAddressesAgree ==
  Launched /\ ~native /\ MatchingOperands =>
    \A i \in DOMAIN args :
      IF args[i].kind = "tensor" THEN AddressesAs(i, args[i])
      ELSE params[FormalOffset(signature, i) + 1]
             = <<IF IsScalar(signature[i]) THEN "bits" ELSE "address", i>>
=============================================================================
