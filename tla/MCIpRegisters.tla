----------------------------- MODULE MCIpRegisters -----------------------------
(* Designs like that of the zcu216 overlay (an acquisition, a FIFO on each of its *)
(* outputs, a switch and a DMA, converters between them) and what may differ.     *)
EXTENDS IpRegisters

MCModules == {"ps", "clk", "rfdc", "gen0", "gen1", "acq", "trig", "trig1", "slice", "width0",
              "width1", "conv", "axi_slice", "fifo0", "fifo1", "switch", "dma"}
MCPorts == {"M_AXI", "S_AXI", "S_AXI1", "s00_axi", "s00_axis", "m00_axis", "m01_axis", "S_AXIS",
            "M_AXIS", "S_AXIS_S2MM", "S00_AXIS", "S01_AXIS", "S02_AXIS", "S03_AXIS", "M00_AXIS",
            "m02_axis", "M_AXIS2", "HS_axi_clock", "clk_out1", "clk_out2"}
MCNets == {"n" \o ToString(i) : i \in 0 .. 12} \cup {"a0", "a1", "a2", "c0", "c1"}

\* A bus from a port to a port, as its two ends.
End(m, p, r, n, t) == [module |-> m, port |-> p, role |-> r, net |-> n, type |-> t]
Wire(n, m, p, s, q) == {End(m, p, "master", n, "axis"), End(s, q, "slave", n, "axis")}
Control(n, m, p, s, q) == {End(m, p, "master", n, "axi4"), End(s, q, "slave", n, "axi4")}
Clock(n, m, p, f) == [module |-> m, port |-> p, dir |-> "out", net |-> n, freq |-> f]
Pin(n, m) == [module |-> m, port |-> "HS_axi_clock", dir |-> "in", net |-> n, freq |-> 0]

Clocked == {"gen0", "gen1", "acq", "trig", "trig1"}
KindOf ==
    [m \in MCModules |->
        CASE m \in {"gen0", "gen1"} -> "generator" [] m = "acq" -> "acquisition"
          [] m \in {"trig", "trig1"} -> "trigger_generator"
          [] m \in {"fifo0", "fifo1"} -> "fifo" [] m \in {"ps", "rfdc", "switch", "dma"} -> m
          [] m \in {"slice", "width0", "width1", "conv"} -> "axis_pass_through"
          [] m = "axi_slice" -> "axi4_pass_through" [] OTHER -> "other"]

\* From output m01 to the second input of the switch, from output m00 to the first, from
\* the switch to the DMA.
Chain1 == Wire("n5", "acq", "m01_axis", "conv", "S_AXIS")
          \cup Wire("n6", "conv", "M_AXIS", "fifo1", "S_AXIS")
          \cup Wire("n7", "fifo1", "M_AXIS", "switch", "S01_AXIS")
Chain0 == Wire("n0", "acq", "m00_axis", "slice", "S_AXIS")
          \cup Wire("n1", "slice", "M_AXIS", "fifo0", "S_AXIS")
          \cup Wire("n2", "fifo0", "M_AXIS", "width1", "S_AXIS")
          \cup Wire("n3", "width1", "M_AXIS", "width0", "S_AXIS")
          \cup Wire("n4", "width0", "M_AXIS", "switch", "S00_AXIS")
ToDma == Wire("n8", "switch", "M00_AXIS", "dma", "S_AXIS_S2MM")
Play == Wire("n9", "gen0", "m00_axis", "rfdc", "s00_axis")
Axi == Control("a0", "ps", "M_AXI", "axi_slice", "S_AXI")
       \cup Control("a1", "axi_slice", "M_AXI", "gen0", "s00_axi")

Base ==
    [ order |-> <<"ps", "clk", "dma", "switch", "width0", "fifo1", "conv", "fifo0", "acq", "slice",
                  "width1", "gen0", "gen1", "trig", "rfdc", "axi_slice">>,
      kind |-> KindOf,
      ends |-> Chain0 \cup Chain1 \cup ToDma \cup Play \cup Axi,
      pins |-> {Clock("c0", "clk", "clk_out1", 300)}
               \cup {Pin("c0", m) : m \in Clocked \ {"trig1"}},
      bare |-> {}, knownBoard |-> TRUE, hasMap |-> TRUE,
      mapped |-> {"gen0", "gen1", "acq", "trig", "rfdc", "switch", "dma"},
      channels |-> [m \in MCModules |-> IF m = "acq" THEN 2 ELSE 4],
      size |-> [m \in MCModules |-> IF m = "fifo0" THEN 5 ELSE 8],
      numSlaves |-> [m \in MCModules |-> 4], numMasters |-> [m \in MCModules |-> 1] ]

\* A design without some ends and with others, likewise pins.
Rewired(old, new) == [Base EXCEPT !.ends = (@ \ old) \cup new]
Reclocked(old, new) == [Base EXCEPT !.pins = (@ \ old) \cup new]
On(n) == {e \in Base.ends : e.net = n}

\* A DMA behind a FIFO, and with acquisitions of one channel.
Switchless ==
    Rewired(On("n7") \cup On("n8"), Wire("n7", "fifo1", "M_AXIS", "dma", "S_AXIS_S2MM")
                                    \cup Wire("n8", "switch", "M00_AXIS", "rfdc", "S00_AXIS"))
Faster == [Switchless EXCEPT !.channels["acq"] = 1]

\* Designs that come up: inputs of the switch that are not the first ones, in another
\* order or alone; outputs that lead to no FIFO or no DMA; modules in
\* a ring; several clocks, one of which nobody uses; slaves without a master.
Sound ==
    { Base,
      Rewired(On("n4") \cup On("n7"), Wire("n4", "width0", "M_AXIS", "switch", "S03_AXIS")
                                      \cup Wire("n7", "fifo1", "M_AXIS", "switch", "S01_AXIS")),
      Rewired(On("n4") \cup On("n7"), Wire("n4", "width0", "M_AXIS", "switch", "S01_AXIS")
                                      \cup Wire("n7", "fifo1", "M_AXIS", "switch", "S00_AXIS")),
      Rewired(On("n7"), Wire("n7", "fifo1", "M_AXIS", "rfdc", "S01_AXIS")),
      Switchless, Faster,
      Rewired(Chain0, Wire("n0", "acq", "m00_axis", "slice", "S_AXIS")
                      \cup Wire("n1", "slice", "M_AXIS", "rfdc", "S00_AXIS")
                      \cup Wire("n10", "gen1", "m00_axis", "rfdc", "S01_AXIS")),
      Rewired(Chain0, Wire("n0", "acq", "m00_axis", "rfdc", "S00_AXIS")
                      \cup Wire("n1", "slice", "M_AXIS", "width0", "S_AXIS")
                      \cup Wire("n2", "width0", "M_AXIS", "slice", "S_AXIS")),
      Rewired({}, {End("gen1", "s00_axi", "slave", "a2", "axi4")}),
      Reclocked({}, {Clock("c1", "clk", "clk_out2", 100)}) }

\* Designs that do not: parts that are missing or too many ...
Incomplete ==
    { [Base EXCEPT !.knownBoard = FALSE],
      [Base EXCEPT !.hasMap = FALSE],
      [Base EXCEPT !.kind["ps"] = "other"],
      [Base EXCEPT !.mapped = @ \ {"acq"}],
      [Base EXCEPT !.numMasters["switch"] = 2],
      [Base EXCEPT !.order = Append(@, "trig1"), !.mapped = @ \cup {"trig1"},
                   !.pins = @ \cup {Pin("c0", "trig1")}],
      [Base EXCEPT !.pins = @ \ {Pin("c0", "trig")}] }

\* ... a debug overlay, which has no RF-DC, and one without a switch ...
Debug == {[Base EXCEPT !.kind["rfdc"] = "other"], [Switchless EXCEPT !.kind["rfdc"] = "other"]}

\* ... clocks that are missing, doubled or different, and channels that do not fit ...
Misclocked ==
    { Reclocked({Pin("c0", "acq")}, {}),
      Reclocked({Pin("c0", "acq")}, {Pin("c1", "acq"), Clock("c1", "clk", "clk_out2", 100)}),
      Reclocked({Pin("c0", "acq")}, {Pin("c1", "acq"), Clock("c1", "clk", "clk_out2", 300)}),
      Reclocked({Clock("c0", "clk", "clk_out1", 300)}, {Clock("c0", "clk", "clk_out1", 0)}),
      Reclocked({}, {Clock("c0", "ps", "clk_out1", 300)}),
      [Base EXCEPT !.bare = {"clk"}],
      [Base EXCEPT !.channels["gen1"] = 8],
      [Base EXCEPT !.channels["acq"] = 8],
      [Base EXCEPT !.channels["acq"] = 4] }

\* ... and wires that are missing, doubled or lead where a node cannot follow them.
Miswired ==
    { Rewired({End("fifo1", "S_AXIS", "slave", "n6", "axis")}, {}),
      Rewired({}, {End("gen1", "S_AXIS", "slave", "n9", "axis")}),
      Rewired(On("n5"), {}),
      Rewired(On("n6"), {}),
      Rewired(On("n8"), {}),
      Rewired(On("n8"), Wire("n8", "acq", "m02_axis", "dma", "S_AXIS_S2MM")),
      Rewired(On("n8"), Wire("n8", "gen1", "m00_axis", "dma", "S_AXIS_S2MM")),
      Rewired(On("n4") \cup On("n7"), Wire("n4", "width0", "M_AXIS", "rfdc", "S00_AXIS")
                                      \cup Wire("n7", "fifo1", "M_AXIS", "rfdc", "S01_AXIS")),
      Rewired(Chain1, Wire("n5", "acq", "m01_axis", "switch", "S01_AXIS")),
      Rewired(On("n1"), Wire("n1", "slice", "M_AXIS", "fifo0", "S_AXIS")
                        \cup Wire("n10", "slice", "M_AXIS2", "rfdc", "S00_AXIS")),
      Rewired(On("n2") \cup On("n3") \cup On("n4") \cup On("n5") \cup On("n6"),
              Wire("n2", "fifo0", "M_AXIS", "fifo1", "S_AXIS")
              \cup Wire("n5", "acq", "m01_axis", "rfdc", "S00_AXIS")),
      Rewired(Chain1 \cup On("n8"),
              Wire("n5", "acq", "m01_axis", "rfdc", "S00_AXIS")
              \cup Wire("n6", "switch", "M00_AXIS", "fifo1", "S_AXIS")
              \cup Wire("n8", "fifo1", "M_AXIS", "dma", "S_AXIS_S2MM")),
      Rewired(On("n1") \cup On("n2"), Wire("n1", "slice", "M_AXIS", "width1", "S_AXIS")
                                      \cup Wire("n2", "fifo0", "M_AXIS", "fifo0", "S_AXIS")),
      Rewired(On("n5") \cup On("n6") \cup On("n9"),
              Wire("n5", "acq", "m01_axis", "rfdc", "S00_AXIS")
              \cup Wire("n6", "gen0", "m00_axis", "fifo1", "S_AXIS")),
      [Rewired(On("n6") \cup On("n7"), Wire("n6", "conv", "M_AXIS", "fifo1", "S00_AXIS")
                                       \cup Wire("n7", "fifo1", "M00_AXIS", "switch", "S01_AXIS"))
        EXCEPT !.kind["fifo1"] = "switch", !.mapped = @ \cup {"fifo1"}] }

\* A design in the order above, in the reverse, and from any other module on.
Rotated(s, k) == SubSeq(s, k + 1, Len(s)) \o SubSeq(s, 1, k)
MCDesigns ==
    LET bases == Sound \cup Incomplete \cup Debug \cup Misclocked \cup Miswired
    IN  bases \cup {[d EXCEPT !.order = Reverse(@)] : d \in bases}
        \cup {[d EXCEPT !.order = Rotated(@, k)] : d \in Sound, k \in {3, 7, 11}}

\* A design is configured whose DMA has no switch, with a ratio of two and of four: an
\* acquisition with all its fields, the others with a few, or a generator and an acquisition
\* with one field each.
MCConfigured == {Switchless, Faster}
MCSessions == {[modules |-> {"acq"}, entries |-> 5], [modules |-> {"gen0"}, entries |-> 3],
               [modules |-> {"trig"}, entries |-> 5], [modules |-> {"gen0", "acq"}, entries |-> 2]}
MCItems == {[ttype |-> "readout", mask |-> 2, index |-> 1], [ttype |-> "drive", mask |-> 3, index |-> 1],
            [ttype |-> "readout", mask |-> 0, index |-> 2], [ttype |-> "drive", mask |-> 4, index |-> 2],
            [ttype |-> "drive", mask |-> 1, index |-> 3], [ttype |-> "other", mask |-> 1, index |-> 1]}
=============================================================================
