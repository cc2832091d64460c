-------------------------- MODULE MCServerNetchan --------------------------
(***************************************************************************)
(* ServerNetchan with the code's constants: FRAGMENT_SIZE is               *)
(* MAX_PACKETLEN - 100 and MAX_MSGLEN is 65535*4.                          *)
(***************************************************************************)
EXTENDS ServerNetchan

MCFragmentSize == 5600 * 4 - 100
MCMaxMsgLen == 65535 * 4
MCMaxFragments == MCMaxMsgLen \div MCFragmentSize

\* Shorter than a fragment; exactly one fragment, which needs a trailing empty
\* one; two fragments; four, whose later offsets do not fit in 16 bits.
MCLengths == {100, MCFragmentSize, MCFragmentSize + 1, 3 * MCFragmentSize + 1}

\* Exactly at two full fragments, and just below.
MCLongLengths == {2 * MCFragmentSize - 1, 2 * MCFragmentSize}
=============================================================================
