---------------------------- MODULE MCSettingsWindow ----------------------------
EXTENDS SettingsWindow
MCHosts == { [backend |-> "wayvnc", private |-> FALSE, wayland |-> TRUE],
             [backend |-> "grd", private |-> TRUE, wayland |-> TRUE],
             [backend |-> "w0vncserver", private |-> FALSE, wayland |-> FALSE] }
================================================================================
