----------------------------- MODULE MCTransport -----------------------------
(* Transport on two threads, a DPI register, a bind without a captured   *)
(* read form, and a mouse with two lit zones.       *)
EXTENDS Transport

CONSTANTS main, notice, dpi, bind, wheel, logo, low, high

MCThreads  == {main, notice}
MCRegs     == {dpi, bind}
MCCaptured == {dpi}
MCWritable == {<<dpi, low>>, <<dpi, high>>}
MCLeds     == {wheel, logo}
MCZones    == <<wheel, logo>>
MCValues   == {low, high}
MCRequested ==
  {[kind |-> "check"], [kind |-> "get", reg |-> dpi], [kind |-> "get", reg |-> bind],
   [kind |-> "set", reg |-> dpi, val |-> low], [kind |-> "set", reg |-> dpi, val |-> high],
   [kind |-> "set", reg |-> bind, val |-> low],
   [kind |-> "light", zones |-> MCZones], [kind |-> "light", zones |-> <<logo>>],
   [kind |-> "light", zones |-> <<>>]}
=============================================================================
