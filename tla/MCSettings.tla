----------------------------- MODULE MCSettings -----------------------------
(* Settings for TLC: four files an installation may have.                  *)
EXTENDS Settings

MCConfDefault ==
  <<Note("# [root]"), KeyValue("logfile", "logs", NoComment), Blank,
    Section("ui", NoComment), KeyValue("skin", "lightstyle", NoComment),
    Note("# rect"), KeyValue("main_window_rect", "<<1, 3, 2>>", NoComment),
    Section("draw", "# tools"), KeyValue("line_width", "1", "# default"), Note("# end")>>

\* Limits in the settings, a level above the maximum, a key set twice.
Limited ==
  <<Section("image", NoComment), KeyValue("max_contrast", "1", NoComment),
    KeyValue("default_contrast", "2", "# user"), KeyValue("min_brightness", "1", NoComment),
    Note("# again"), KeyValue("default_contrast", "0", NoComment), Malformed,
    Section("image", "# again"), KeyValue("default_brightness", "0", NoComment)>>

\* A window that is shown maximized, and texts that are not numbers.
Odd ==
  <<Section("ui", NoComment), KeyValue("main_window_state", "2", NoComment),
    KeyValue("main_window_rect", "rect", NoComment), Malformed, Note("# image"),
    Section("image", NoComment), KeyValue("default_brightness", "high", NoComment)>>

\* The minimum is above the level.
Low ==
  <<KeyValue("main_window_state", "3", NoComment), Section("image", NoComment),
    KeyValue("default_brightness", "0", NoComment), KeyValue("min_brightness", "1", NoComment)>>

MCConfFiles == {Absent, <<>>, Limited, Odd, Low}
MCPlacements == {<<1, 3, 2>>, <<1, 1, 2>>}
MCSizes == {<<4, 1>>, <<3, 2>>}
=============================================================================
