---------------------------- MODULE MCSerialLine ----------------------------
(* Small byte values; the key prefix is also a plausible length.           *)
EXTENDS SerialLine

Msg(kind, bytes) == [kind |-> kind, bytes |-> bytes]

(* Requests of two and of MAX_REQ bytes, one of them to seed the keyboard  *)
(* suite; one whose body is a byte short; two keys, the first also a       *)
(* command, the second the first magic byte; a kill; commands; a stray     *)
(* magic byte, and a stray magic, whose length is made of what comes next. *)
MCMessages ==
    {Msg("request", <<AA, NN, 2, 0, Brace, RingDump>>),
     Msg("request", <<AA, NN, 3, 0, Brace, SeedKey, RingDump>>),
     Msg("cut", <<AA, NN, 3, 0, Brace, RingDump>>),
     Msg("key", <<Prefix, RingDump, Prefix, AA>>),
     Msg("key", <<Prefix, OpKill>>),
     Msg("command", <<SeedKey>>),
     Msg("command", <<SeedPlain>>),
     Msg("stray", <<AA>>),
     Msg("stray", <<AA, NN>>)}

=============================================================================
