------------------------------ MODULE MCJoybus ------------------------------
(* Sixteen bytes of PIF RAM, room for two controllers and the end of the list.
   The controller in channel 0 comes, goes and moves; there is no other.     *)
EXTENDS Joybus

MCPadStates == {<<0, 0, 0, 0>>, <<128, 0, 80, 176>>}

SkipItem == [kind |-> "skip"]
ResetItem == [kind |-> "reset"]
Packet(cmd, rlen, padding) ==
    [kind |-> "packet", cmd |-> cmd, rlen |-> rlen, padding |-> padding]
Buttons == Packet(1, 4, << >>)

MCLists ==
    {<<Buttons>>, <<Buttons, Buttons>>, <<SkipItem, ResetItem, SkipItem, Buttons>>,
     <<Packet(0, 3, << >>), Packet(255, 3, <<255>>)>>,
     <<Packet(1, 5, <<255>>), Packet(2, 2, << >>)>>}

From(bytes) == [i \in Offsets |-> IF i < Len(bytes) THEN bytes[i + 1] ELSE 255]

\* Padding only; a packet that overruns by one byte and one that just does not; a
\* lone 00; a packet with nothing to send, marked by whoever left it; two lengths
\* at the very end; five channels.
MCOddities ==
    {From(<< >>), From(<<1, 13, 1>>), From(<<1, 12, 1>>), From(<<0, 1, 4, 1, 9, 9, 9, 9, 254>>),
     From(<<64, 131, 7, 7, 7, 254>>),
     From(<<253, 1, 3, 0, 9, 9, 9, 255, 255, 255, 255, 255, 255, 255, 1>>),
     From(<<253, 253, 0, 0, 253, 1, 4, 1, 9, 9, 9, 9>>)}
=============================================================================
