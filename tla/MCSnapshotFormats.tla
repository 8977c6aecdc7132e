------------------------- MODULE MCSnapshotFormats -------------------------
(***************************************************************************)
(* SnapshotFormats for TLC: an index is destroyed until its version is     *)
(* MaxVersion, and tokens are issued up to MaxIssued.  The values are such *)
(* that one of them is changed by quantizing and the other is not.         *)
(* scene: either frames are sent, or the bit buffers they are packed in    *)
(* are used, up to MaxBits.                                                *)
(***************************************************************************)
EXTENDS SnapshotFormats, BitBuffer

CONSTANTS A, B, MaxVersion, MaxIssued, MaxFrame, MaxPayload

VARIABLE scene

MCRounded(v) == IF v = Garbage THEN v ELSE 2 * ((v + 1) \div 2)

Plain(format) == [format |-> format, relative |-> FALSE, include |-> {}, exclude |-> {},
                  writable |-> Component, readable |-> Component,
                  taken |-> {}, grouped |-> FALSE]

MCSetups ==
    UNION { { [Plain(f) EXCEPT !.include = {A}, !.writable = {A}],
              [Plain(f) EXCEPT !.writable = {A}],
              [Plain(f) EXCEPT !.readable = {A}] } : f \in {"native", "persistent"} }
    \cup { [Plain("native") EXCEPT !.grouped = TRUE],
           Plain("persistent"),
           [Plain("persistent") EXCEPT !.exclude = {A}, !.taken = Index] }

RelativeSetups == {[Plain("persistent") EXCEPT !.relative = TRUE]}

(* Two values for one component, and one where no value is changed. *)
Writable(c, v) == v = 3 \/ (c = A /\ ~Native)

Frames ==
    \/ \E i \in Index :
          \/ CreateHere(i)
          \/ slots[i].version < MaxVersion /\ DestroyHere(i)
          \/ \E c \in Component : RemoveHere(c, i) \/ \E v \in Value : Writable(c, v) /\ PutHere(c, i, v)
    \/ issued < MaxIssued /\ FileBroadcast

MaxBits(x) == IF x = "frame" THEN MaxFrame ELSE MaxPayload

Room(x) == 0 .. MaxBits(x) - buffer[x].bit_size

(* All contents are assigned; what is written over them or behind them is  *)
(* all zeros or all ones.  CarriesBits tries all values in every state.    *)
Plainest == {{}, 0 .. WordBits - 1}

Bits ==
    \E x \in Name : \E y \in Name \ {x} :
       \/ Clear(x) \/ ResetRead(x)
       \/ \E n \in 0 .. MaxBits(x) :
             \/ Truncate(x, n) \/ Skip(x, n)
             \/ n \in Room(y) /\ Extract(x, y, n)
             \/ buffer[x] = Empty /\ \E bytes \in [1 .. ByteCount(n) -> Byte] : Assign(x, bytes, n)
       \/ 1 \in Room(x) /\ \E value \in BOOLEAN : WriteBool(x, value)
       \/ \E v \in Plainest :
             \/ \E n \in Room(x) \cap 0 .. WordBits : Write(x, v, n)
             \/ \E n \in {1, WordBits}, at \in 0 .. MaxBits(x) : Overwrite(x, at, v, n)
             \/ WordBits \in Room(x) /\ \E little \in BOOLEAN : WriteScalar(x, v, WordBytes, little)
             \/ ByteBits \in Room(x) /\ WriteBytes(x, <<Low(v, ByteBits)>>)
       \/ buffer[y].bit_size \in Room(x) /\ AppendBuffer(x, y)

MCInit ==
    /\ FormatInit /\ BufferInit
    /\ \/ scene = "frames"
       \/ scene = "bits" /\ setup = Plain("persistent")

MCNext ==
    /\ UNCHANGED scene
    /\ \/ scene = "frames" /\ Frames /\ UNCHANGED buffer
       \/ scene = "bits" /\ Bits /\ UNCHANGED formatVars

MCSpec == MCInit /\ [][MCNext]_<<scene, formatVars, buffer>>

(* Whatever was written, cut, overwritten and read before, at whatever bit *)
(* of a byte, a bit buffer acts as the sequence of bits that was put in    *)
(* (BitBuffer).                                                            *)
BitsKept == scene = "bits" => CarriesBits
=============================================================================
