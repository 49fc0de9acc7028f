------------------------------ MODULE MCStartup ------------------------------
(* Small configurations for Startup.                                        *)
EXTENDS Startup, TLC

CONSTANTS a, b, d, s, x, y, z, modbus, meter, broken, slave

Dev(n, ty) == [name |-> n, type |-> ty]
Coll(ch, ds) ==
    [enable |-> TRUE, bTrans |-> FALSE, channel |-> ch, serial |-> TRUE, content |-> ds]
Trans(en) == [enable |-> en, bTrans |-> TRUE, channel |-> "TCPServer",
              serial |-> FALSE, content |-> <<Dev(s, s)>>]

Table == (<<"control", 0>> :> [name |-> b, point |-> 0])
         @@ (<<"param", 1>> :> [name |-> a, point |-> 1])
Config(ts, plugs) ==
    [tasks |-> ts, plug |-> plugs, transStore |-> {s} \cap DOMAIN plugs,
     table |-> Table, points |-> {<<a, 0>>, <<a, 1>>, <<b, 0>>}]

Plugs == (x :> modbus) @@ (y :> modbus) @@ (z :> NoPlug) @@ (s :> slave)
Serial == "RS-485"

(* Two types behind one library and a server; one type on two channels, and  *)
(* a device without a protocol; two libraries on one channel, one of which   *)
(* cannot be loaded, and one of which can.                                 *)
Sound ==
    {Config(<<Coll(Serial, <<Dev(a, x), Dev(b, y)>>), Trans(TRUE)>>, Plugs),
     Config(<<Coll("TCPClient", <<Dev(a, x), Dev(b, x), Dev(d, z)>>), Trans(TRUE)>>, Plugs),
     Config(<<Coll(Serial, <<Dev(a, x)>>), Coll("UDP", <<Dev(b, x)>>), Trans(TRUE)>>, Plugs),
     Config(<<Coll(Serial, <<Dev(a, x), Dev(b, y)>>), Trans(TRUE)>>,
            [Plugs EXCEPT ![y] = broken]),
     Config(<<Coll(Serial, <<Dev(a, x), Dev(b, y)>>), Trans(TRUE)>>,
            [Plugs EXCEPT ![y] = meter])}

(* An unused channel, one that cannot be initialised, one that is never      *)
(* created, a transmission without a task.                                 *)
Unsound ==
    {Config(<<Coll("", <<Dev(a, x)>>)>>, x :> modbus),
     Config(<<[Coll(Serial, <<Dev(a, x)>>) EXCEPT !.serial = FALSE]>>, x :> modbus),
     Config(<<Coll("RS-232", <<Dev(a, x)>>)>>, x :> modbus),
     Config(<<Coll("other", <<Dev(a, x)>>)>>, x :> modbus),
     Config(<<Coll(Serial, <<Dev(a, x)>>)>>, Plugs)}

All == Sound \cup Unsound

(* The configuration with its transmission enabled, and disabled.           *)
Switched == {Config(<<Coll(Serial, <<Dev(a, x)>>), Trans(en)>>, Plugs) : en \in BOOLEAN}
=============================================================================
