----------------------------- MODULE MCPairing -----------------------------
EXTENDS Pairing

Start(c, p, old, new, full, wants) ==
  [central |-> c, peripheral |-> p, bonded |-> old, renewed |-> new,
   crowded |-> full, bondable |-> wants]

MCStarts ==
  {Start("NoInputNoOutput", "KeyboardDisplay", {}, {}, {}, {"central"}),
   Start("NoInputNoOutput", "DisplayOnly", Ends, {"peripheral"}, {}, Ends),
   Start("NoInputNoOutput", "KeyboardDisplay", {}, {}, {"peripheral"}, Ends),
   Start("KeyboardDisplay", "DisplayYesNo", {}, {}, {}, Ends),
   Start("KeyboardDisplay", "KeyboardOnly", {}, {}, {}, Ends),
   Start("KeyboardOnly", "KeyboardDisplay", {}, {}, {}, {}),
   Start("KeyboardOnly", "KeyboardOnly", {}, {}, {}, Ends),
   Start("NoInputNoOutput", "DisplayOnly", Ends, {}, {}, Ends),
   Start("NoInputNoOutput", "DisplayOnly", {"central"}, {}, {}, Ends),
   Start("NoInputNoOutput", "DisplayOnly", {"peripheral"}, {}, {}, Ends)}
=============================================================================
