---------------------------- MODULE MCQualification ----------------------------
\* Fixtures for TLC: a Plasma container and the viewer on the host, a wlroots container and
\* the harness viewer, and a guest and the Android app.
EXTENDS Qualification

MCFixtures == { {"portal"}, {"resize", "hotplug", "lock", "input"},
                {"resize", "hotplug", "lock", "input", "suspend", "app"} }
MCSelections == { Names, {"suspend-resume"} }
================================================================================
