-------------------------- MODULE MCTransferSession --------------------------
(* Small files for TransferSession: a hashed file with a short last chunk,   *)
(* an unhashed one, an empty one, and one with more chunks than the bitset   *)
(* has bits.                                                                 *)
EXTENDS TransferSession

Meta(f, count, size, hashed) ==
    [file |-> f, chunk_count |-> count, chunk_size |-> 2, file_size |-> size, hashed |-> hashed]

MCFiles == {"hashed", "plain", "empty", "big"}
MCMetas == {Meta("hashed", 3, 5, {0, 1, 2}), Meta("plain", 2, 4, {}),
            Meta("empty", 0, 0, {}), Meta("big", 4, 8, {0})}
MCUnset == {Meta("empty", 0, 0, {}), Meta("plain", 1, 1, {})}
MCBodies == {<<"hashed", 0>>, <<"hashed", 1>>, <<"hashed", 2>>, <<"plain", 0>>, <<"big", 0>>}
=============================================================================
