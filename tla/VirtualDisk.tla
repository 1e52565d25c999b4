----------------------------- MODULE VirtualDisk -----------------------------
(***************************************************************************)
(* The size of a virtual machine's disk, converted twice: to gigabytes for *)
(* the image that is made for it, and to mebibytes for the partitions that *)
(* are laid out on it.  A size is <<n, unit>>, n as large as 32 bits allow *)
(* for the arithmetic below; the decimals of the code are the fractions    *)
(* they stand for.                                                         *)
(***************************************************************************)
EXTENDS Naturals

DiskSizes == ((1 .. 7000) \X {"M", "G"}) \union ((1 .. 1400) \X {"T"})

DividedUp(n, by) == (n + by - 1) \div by

\* int(size[:-1]) * 1024 ** i, for i below 2^31
ConvertToMb(size) ==
    size[1] * CASE size[2] = "M" -> 1 [] size[2] = "G" -> 1024 [] OTHER -> 1048576

\* Faulty: int() without ceil().
ConvertRoundedDown(size) ==
    CASE size[2] = "M" -> (size[1] * 262144) \div 244140625
      [] size[2] = "G" -> size[1] + (size[1] * 144027) \div 1953125
      [] OTHER -> size[1] * 1073 + (size[1] * 11591) \div 15625

\* ceil of n * 0.001073741824, n * 1.073741824 and n * 1073.741824
ConvertToGigabytes(size) ==
    CASE size[2] = "M" -> DividedUp(size[1] * 262144, 244140625)
      [] size[2] = "G" -> size[1] + DividedUp(size[1] * 144027, 1953125)
      [] OTHER -> size[1] * 1073 + DividedUp(size[1] * 11591, 15625)

\* The whole mebibytes in an image of so many gigabytes.  That whoever makes
\* the image takes a gigabyte for 1000^3 bytes is assumed; it is what the
\* factors above are for.
Mebibytes(gb) == gb * 953 + (gb * 1381) \div 2048
=============================================================================
