------------------------------ MODULE MCStore ------------------------------
(* Small instances of Store.                                               *)
EXTENDS Store, TLC

MCQuads == 1..3
MCHash(q) == q % 2                         \* 1 and 3 collide
MCPartialPatterns == {{1, 2}}
MCBatches == {<<1>>, <<3, 2, 3>>}

MCFewQuads == 1..2
MCNoHash(q) == 0                           \* every key collides
MCFewPatterns == {{2}}
MCOneBatch == {<<2, 1, 2>>}

Symmetry == Permutations(Handles)

(* The history variable tells no two states apart: each step is checked    *)
(* with the call it makes.                                                 *)
View == <<store, disk, writable, generation>>
============================================================================
