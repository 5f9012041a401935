------------------------------- MODULE Vring -------------------------------
(***************************************************************************)
(* Where the parts of a vring lie in memory (include/linux/virtio_ring.h): *)
(* num descriptors, the avail ring and, on the next boundary, the used     *)
(* ring.  The host allocates vring_size bytes and hands out the address;   *)
(* the PRU computes the rest on its own with vring_init.                   *)
(***************************************************************************)
EXTENDS Integers

U16          == 2
DescSize     == 16            \* sizeof(struct vring_desc)
UsedElemSize == 8             \* sizeof(struct vring_used_elem)

\* From the beginning of vring_avail to &ring[num]: flags, idx and the ring.
AvailRing(num) == 2 * U16 + num * U16

\* Each ring with the event index of the other side, which lies behind it.
AvailSize(num) == AvailRing(num) + U16
UsedSize(num)  == 2 * U16 + num * UsedElemSize + U16

\* Mutant: rounded down.
AlignDown(x, align) == x - (x % align)

\* (x + align-1) & ~(align-1), for an align that is a power of two.
AlignUp(x, align) == (x + align - 1) - ((x + align - 1) % align)

vring_init(num, p, align) ==
  [ num   |-> num,
    desc  |-> p,
    avail |-> p + num * DescSize,
    used  |-> AlignUp(p + num * DescSize + AvailRing(num) + U16, align) ]

vring_size(num, align) ==
  AlignUp(DescSize * num + U16 * (3 + num), align) + U16 * 3 + UsedElemSize * num

-----------------------------------------------------------------------------
(* The parts of a vring do not overlap, and fit in the memory from base on *)
(* that vring_size asks for.                                               *)
WellPlaced(vr, base, align) ==
  /\ base <= vr.desc
  /\ vr.desc + vr.num * DescSize <= vr.avail
  /\ vr.avail + AvailSize(vr.num) <= vr.used
  /\ vr.used + UsedSize(vr.num) <= base + vring_size(vr.num, align)
  /\ vr.used % align = 0
=============================================================================
