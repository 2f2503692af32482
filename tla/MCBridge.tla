------------------------------ MODULE MCBridge -------------------------------
(***************************************************************************)
(* Small instances of the bridge for TLC.                                  *)
(***************************************************************************)
EXTENDS Bridge, TLC

MCPaths    == {"good", "bad", "text"}
MCBroken   == {"bad"}
MCNotSongs == {"text"}
MCFiles    == [music |-> <<"good", "bad", "text">>]

MCAsked ==
  {<<"Open", "bad">>, <<"PlayRows", <<1, 2>>, 1>>, <<"PlayRows", <<2, 1, 9>>, 3>>,
   <<"Stop">>, <<"TogglePause">>, <<"Seek">>, <<"Next">>, <<"Previous">>, <<"SetSubsong", 1>>,
   <<"SetLoop", "One">>, <<"SetLoop", "All">>, <<"SetVolume", 3>>, <<"SetVolume", NotFinite>>,
   <<"ClearQueue">>, <<"ScanLibrary", "music">>}
=============================================================================
