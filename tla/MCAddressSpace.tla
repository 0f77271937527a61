--------------------------- MODULE MCAddressSpace ---------------------------
(* Four user pages, one page of KSEG0 and a pair each of SSEG and KSEG3; two TLB
   entries.  Each guest uses a few of the instructions: mapping and compiling,
   refilling and probing, sharing a word, changing the mode.                 *)
EXTENDS AddressSpace

P(f, flags) == [frame |-> f, valid |-> "v" \in flags, dirty |-> "d" \in flags,
                global |-> "g" \in flags]
Map(size, even, odd) == [size |-> size, even |-> even, odd |-> odd]
H(pair, a) == [pair |-> pair, asid |-> a]
S(k, x, l) == [ksu |-> k, exl |-> x, erl |-> l]

MCAsids == {"a0", "a1"}

Mapper ==
    [ops |-> {"load", "jump", "entry_hi", "entry_lo", "index", "tlbwi", "tlbr"},
     pages |-> {0, 1, 4},
     his |-> {H(0, "a0"), H(0, "a1")},
     los |-> {Map(1, P(0, {"v"}), P(1, {"v"})), Map(1, P(1, {"v", "g"}), P(0, {"v", "g"}))},
     statuses |-> {}, wireds |-> {}]

Refiller ==
    [ops |-> {"load", "store", "eret", "entry_lo", "wired", "tlbwr", "tlbp", "tlbwi"},
     pages |-> {0, 1, 3, 4},
     his |-> {},
     los |-> {Map(2, P(1, {"v", "d"}), P(2, {"v"})), Map(1, P(1, {}), P(2, {"v", "d"}))},
     statuses |-> {}, wireds |-> {0, 1}]

Sharer ==
    [ops |-> {"store", "ll", "sc", "interrupt", "eret", "epc", "entry_hi", "entry_lo", "tlbwi",
              "status"},
     pages |-> {0, 1},
     his |-> {H(0, "a0"), H(0, "a1")},
     los |-> {Map(1, P(0, {"v", "d", "g"}), P(1, {"v", "d", "g"}))},
     statuses |-> {S("user", TRUE, FALSE)}, wireds |-> {}]

Switcher ==
    [ops |-> {"load", "jump", "interrupt", "eret", "status", "epc", "error_epc", "entry_hi",
              "entry_lo", "tlbwi"},
     pages |-> {0, 4, 5, 7},
     his |-> {H(0, "a0"), H(2, "a0"), H(3, "a0")},
     los |-> {Map(1, P(0, {"v", "d"}), P(1, {"v", "d"}))},
     statuses |-> {S("user", TRUE, FALSE), S("supervisor", FALSE, TRUE),
                   S("kernel", FALSE, FALSE)},
     wireds |-> {}]

MCGuests == {Mapper, Refiller, Sharer, Switcher}
=============================================================================
