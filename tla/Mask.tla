-------------------------------- MODULE Mask --------------------------------
(***************************************************************************)
(* src/mask.rs.  The value of a byte does not matter, only which byte of   *)
(* the framing key it is XORed with: masking n bytes yields the sequence   *)
(* `used' of key bytes, numbered 0..3 as they were in the frame header,    *)
(* and the key as it is left for the next call.                            *)
(***************************************************************************)
EXTENDS Integers, Sequences

CONSTANT WordBytes   \* 8: the bytes of the u64 that fallback_frame masks at once

ASSUME WordAssumption == WordBytes \in Nat \ {0} /\ WordBytes % 4 = 0

FramingKey == [i \in 0..3 |-> i]

\* Mutant: the key is rotated the other way.
rotate_mask_Right(key, offset) == [i \in 0..3 |-> key[(i - offset) % 4]]

rotate_mask(key, offset) == [i \in 0..3 |-> key[(i + offset) % 4]]

\* What n bytes are XORed with when the key is repeated over them.
Repeated(key, n) == [i \in 1..n |-> key[(i - 1) % 4]]

one_byte_at_once(key, n) == [used |-> Repeated(key, n), key |-> rotate_mask(key, n)]

\* slice::align_to_mut: n bytes at address addr fall into a prefix up to the
\* first multiple of w, whole blocks of w bytes, and a suffix.
AlignTo(addr, n, w) ==
    LET gap == (-addr) % w
        prefix == IF n < gap THEN n ELSE gap
        blocks == w * ((n - prefix) \div w)
    IN  [prefix |-> prefix, blocks |-> blocks, suffix |-> n - prefix - blocks]

\* Prefix, blocks and suffix together; the blocks repeat the key the prefix
\* left, and since their width is a multiple of four they leave it alone.
FrameAligned(pre, blocks, suf) ==
    pre.used \o Repeated(pre.key, blocks) \o suf.used

fallback_frame(key, addr, n) ==
    LET a == AlignTo(addr, n, WordBytes)
        pre == one_byte_at_once(key, a.prefix)
        suf == one_byte_at_once(pre.key, a.suffix)
    IN  [used |-> FrameAligned(pre, a.blocks, suf), key |-> suf.key]

\* frame_avx512, frame_avx2, frame_sse2, frame_neon, ...: blocks of w bytes,
\* the rest by fallback_frame.
frame_simd(key, addr, n, w) ==
    LET a == AlignTo(addr, n, w)
        pre == fallback_frame(key, addr, a.prefix)
        suf == fallback_frame(pre.key, addr + a.prefix + a.blocks, a.suffix)
    IN  [used |-> FrameAligned(pre, a.blocks, suf), key |-> suf.key]

\* frame: w is the width of the SIMD blocks the CPU supports, or 0
frame(key, addr, n, w) ==
    IF w = 0 THEN fallback_frame(key, addr, n) ELSE frame_simd(key, addr, n, w)
=============================================================================
