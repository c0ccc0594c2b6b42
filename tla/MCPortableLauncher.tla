-------------------------- MODULE MCPortableLauncher --------------------------
(* A launcher of 6 places with a footer-like text and the bare prefix of a checksum *)
(* among its constants, the ZIP of 3 and the footer of 2 places after it; then,     *)
(* when it is signed, up to one place of padding and the signature of 2 places.     *)
EXTENDS PortableLauncher

Packed(padding, signed, damaged) ==
    [size |-> 11 + IF signed THEN padding + 2 ELSE 0,
     certificate |-> IF signed THEN 11 + padding ELSE 0,
     footers |-> {[at |-> 9, length |-> 3], [at |-> 5, length |-> 9]},
     digests |-> {[at |-> 1, of |-> <<0, 0>>], [at |-> 3, of |-> <<6, 3>>]},
     zip |-> <<6, 3>>, damaged |-> damaged]

MCExecutables ==
    {Packed(padding, signed, damaged) : padding \in {0, 1}, signed, damaged \in BOOLEAN}
=============================================================================
