------------------------- MODULE MCFileDescriptors -------------------------
(* A disk of blocks of two bytes, with a file of four bytes, which ends    *)
(* with its block.                                                         *)
EXTENDS FileDescriptors

Index(blocks) == [i \in 0 .. 3 |-> IF i < Len(blocks) THEN blocks[i + 1] ELSE 0]

MCInodes == 0 :> [data_length |-> 4, data_index |-> Index(<<3, 1>>)]

MCDirectory == 0 :> [file_type |-> "dir", inode_num |-> 0]
            @@ 1 :> [file_type |-> "file", inode_num |-> 0]

(* The same with a second file, of three bytes. *)
MCTwoInodes == MCInodes @@ 1 :> [data_length |-> 3, data_index |-> Index(<<2, 4>>)]

MCTwoFiles == MCDirectory @@ 2 :> [file_type |-> "file", inode_num |-> 1]

(* Nothing orders the processes: which free slot is taken does not matter. *)
Symmetry == Permutations(Processes)
=============================================================================
