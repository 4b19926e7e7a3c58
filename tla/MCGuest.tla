------------------------------- MODULE MCGuest -------------------------------
(* A cartridge with music - a looping tune that changes the tempo, and one of *)
(* delta-0 events that jumps to itself - and one that measures itself.        *)
EXTENDS Guest

E(delta, command, arg) == [delta |-> delta, command |-> command, arg |-> arg]
MCTracks ==
    [song |-> << <<E(0, "tempo", "slow"), E(1, "note", 0), E(2, "tempo", "fast"), E(1, "jump", 2)>>,
                 <<E(0, "note", 0), E(1, "note", 0), E(0, "jump", 9)>>,
                 <<E(1, "note", 0), E(0, "note", 0), E(0, "jump", 2)>> >>,
     bench |-> <<>>]
MCTickLength == [slow |-> 2, fast |-> 1]
MCMaxCycles == [song |-> 4, bench |-> 2]
MCMaxWall == [song |-> 2, bench |-> 1]
MCUses == [song |-> {"track"}, bench |-> {"broker"}]
==============================================================================
