----------------------------- MODULE MCCardInit -----------------------------
\* The Raspberry Pi's two slots, and cards of the kinds the driver tells apart.
EXTENDS CardInit, TLC

Emmc(cid, has, types, bl) ==
  [cid |-> cid, type |-> "MMC", v4 |-> TRUE, rev |-> 7, types |-> types, has |-> has,
   ocr |-> {32, 33}, dtr |-> 200, bl |-> bl, pwd |-> FALSE, modes |-> {}]

Sd(cid, has, modes, pwd) ==
  [cid |-> cid, type |-> "SD", v4 |-> FALSE, rev |-> 0, types |-> {}, has |-> has,
   ocr |-> {32, 33}, dtr |-> 250, bl |-> 512, pwd |-> pwd, modes |-> modes]

\* An eMMC that can do everything, an old one of 2 GB, a UHS card, an old card
\* with a password, a UHS card with one.
MCCards == {
  Emmc(1, {"HC", "HPI", "ERASE_GRP", "STROBE", "errata_DISCARD"},
       {<<"HS", 33>>, <<"HS200", 18>>, <<"HS400", 18>>, <<"DDR", 18>>}, 512),
  Emmc(2, {}, {<<"HS", 33>>}, 1024),
  Sd(3, {"V2", "HCS", "S18", "SPEC3", "BW4", "HS", "SWITCH"},
     {"SDR12", "SDR25", "SDR50", "SDR104", "DDR50"}, FALSE),
  Sd(4, {"BW4", "HS", "SWITCH", "ASSD"}, {"SDR12", "SDR25"}, TRUE),
  Sd(5, {"V2", "HCS", "S18", "SPEC3", "BW4", "HS", "SWITCH"}, {"SDR12", "SDR25", "SDR50"}, TRUE)}

Emmc2Regs == [ver |-> 3, clk |-> 1000, clkMul |-> 0,
              cap |-> {"HS", "S33", "DDR50", "SDR50", "SDR104"}]

\* The slot for SD cards, the embedded eMMC, the latter with HS400 allowed on
\* the command line, and a controller of version 2.
MCHosts == {
  bcm2711_bs_init(Emmc2Regs, FALSE, {}, {}) @@ [only |-> "any"],
  bcm2711_bs_init(Emmc2Regs, TRUE, {}, {}) @@ [only |-> "MMC"],
  bcm2711_bs_init(Emmc2Regs, TRUE, {"HS400"}, {}) @@ [only |-> "MMC"],
  bcm2711_bs_init([Emmc2Regs EXCEPT !.ver = 2, !.cap = {"HS", "S33"}], FALSE, {}, {}) @@ [only |-> "any"]}
=============================================================================
