---------------------------- MODULE MCAndroidViewer ----------------------------
(***************************************************************************)
(* Three ways the app may have to be answered: a freshly installed app with *)
(* a name and a password, an app that asks for the password alone, and a    *)
(* server that adds a dialog nobody planned for.  Input: the program's own  *)
(* pixels, the places the scenarios aim at, and apps from slow to fast.     *)
(***************************************************************************)
EXTENDS AndroidPointer

MCPaths ==
  { <<"tour", "final", "continue", "unencrypted", "both", "desktop", "help", "coach">>,
    <<"identity", "password", "desktop", "hint">>,
    <<"continue", "dialog", "both", "desktop">> }

MCScreen    == <<1920, 1080>>
MCSafeLow   == <<160, 230>>
MCSafeHigh  == <<1760, 900>>
MCGainLow   == <<1, 5>>
MCGainHigh  == <<4, 1>>
MCFirstGain == [fast |-> <<6, 5>>, slow |-> <<3, 5>>]
MCAppGains  == { [fast |-> f, slow |-> s] : f \in {<<1, 2>>, <<5, 2>>}, s \in {<<1, 4>>, <<1, 1>>} }
               \cup { [fast |-> <<13, 10>>, slow |-> <<2, 3>>] }
MCStarts == {<<0, 0>>, <<957, 540>>, <<1919, 1079>>}
MCGoals  == {<<960, 572>>, <<960, 626>>, <<960, 250>>, <<460, 250>>, <<1460, 250>>}
MCDrags  == {[from |-> <<460, 250>>, to |-> <<1460, 250>>]}
================================================================================
