------------------------------ MODULE Settings ------------------------------
(***************************************************************************)
(* The settings of the program over several runs of it: the file that      *)
(* load_config reads and main saves (main.cpp), the window geometry, and   *)
(* the contrast and brightness that the sliders of ImageAdj, the canvas    *)
(* and the settings share.  The program may be killed between any two      *)
(* steps; a run that ends saves the settings.                              *)
(*                                                                         *)
(* A value in the file is a text; atoi and sscanf read it, asprintf writes *)
(* it.  A geometry is <<x, w, h>>, y being handled as x is.                *)
(* Of a picture the size is kept, and of the one that is shown the levels  *)
(* it was made with and how often each of its bytes was replaced.          *)
(***************************************************************************)
EXTENDS IniParser, Bitwise, TLC

CONSTANTS
  ConfFiles,       \* what the file may hold when the program is installed
  ConfDefault,     \* what the .conf.default holds
  Levels,          \* the contrasts and brightnesses the sliders can reach
  DefaultLevel,    \* DEFAULT_CONTRAST, DEFAULT_BRIGHTNESS
  MaxLevel,        \* MAX_CONTRAST, MAX_BRIGHTNESS
  Placements,      \* the geometries a user, or the window system, chooses
  Sizes,           \* the widths and heights of pictures
  Frame,           \* width of the window's frame, which QWidget::x includes
  MaxRuns          \* bound on the runs of the program

Absent == <<Note("there is no file")>>

Adjustments == {"contrast", "brightness"}
Pick(n, c, b) == IF n = "contrast" THEN c ELSE b
DefaultKey(n) == Pick(n, "default_contrast", "default_brightness")
MaxKey(n) == Pick(n, "max_contrast", "max_brightness")
MinKey(n) == Pick(n, "min_contrast", "min_brightness")

VARIABLES
  conf,      \* the lines of the file, or Absent
  root,      \* IniParser::root_
  stage,     \* where main is
  canvas,    \* m_contrast, m_brightness of the canvas
  slider,    \* the sliders of ImageAdj: value, minimum and maximum
  dialog,    \* whether the ImageAdj window was shown in this run
  image,     \* m_image: the size of the picture on the canvas, or NoImage
  shown,     \* m_disImg: its size, the levels it was made with, its bytes
  window,    \* the window: window_state and geometry
  runs,      \* the runs begun
  read,      \* history: the lines that this run read
  kept       \* history: the levels and the window that the file holds
vars == <<conf, root, stage, canvas, slider, dialog, image, shown, window,
          runs, read, kept>>
display == <<image, shown>>
looks == <<canvas, slider, dialog, display, window>>

-----------------------------------------------------------------------------
(* Conversions.                                                            *)

Numbers == -(MaxRuns * Frame + 1)..9
Rects == {<<p[1] - i * Frame, p[2], p[3]>> : p \in Placements, i \in 0..MaxRuns}

\* asprintf("%d", n) and asprintf("rect(%d,%d,%d,%d)", ...)
Text(value) == ToString(value)

\* atoi: 0 for a text that is not a number
Atoi(text) == IF \E n \in Numbers : Text(n) = text
              THEN CHOOSE n \in Numbers : Text(n) = text ELSE 0

\* sscanf into variables that were not initialised: any geometry, if the text
\* is not one
Scanned(text) == IF \E r \in Rects : Text(r) = text
                 THEN {r \in Rects : Text(r) = text} ELSE Rects

\* IniParser::Get<int>
GetInt(key, section, default) ==
  LET text == GetValue(root, key, section)
  IN  IF text = Empty THEN default ELSE Atoi(text)

-----------------------------------------------------------------------------

NoImage == <<0, 0>>

\* QImage in Format_RGB888 (external): a row starts at a multiple of four bytes.
BytesPerLine(width) == 4 * ((3 * width + 3) \div 4)
Bits(size) == 0..size[2] * BytesPerLine(size[1]) - 1

\* A picture as it was loaded.
Plain(size) == [size |-> size, levels |-> <<>>, rgb |-> [b \in Bits(size) |-> 0]]
Hidden == Plain(NoImage)

Init ==
  /\ conf \in ConfFiles
  /\ root = NoRoot
  /\ stage = "down"
  /\ canvas = [n \in Adjustments |-> DefaultLevel]
  /\ slider = [n \in Adjustments |-> [value |-> 0, min |-> 0, max |-> 0]]
  /\ dialog = FALSE
  /\ image = NoImage
  /\ shown = Hidden
  /\ window \in [state : {0}, rect : Placements]
  /\ runs = 0
  /\ read = <<>>
  /\ kept = [known |-> FALSE, canvas |-> canvas, window |-> window]

-----------------------------------------------------------------------------
(* load_config.                                                            *)

\* The default file is copied when there is none; the copy may fail.
CopyDefault ==
  /\ stage = "down" /\ runs < MaxRuns
  /\ stage' = "load" /\ runs' = runs + 1
  /\ \/ conf # Absent /\ UNCHANGED conf
     \/ conf = Absent /\ conf' \in {ConfDefault, Absent}
  /\ UNCHANGED <<root, looks, read, kept>>

\* LoadFromFile; that the file cannot be opened is not noticed.
LoadFromFile ==
  /\ stage = "load"
  /\ stage' = "window"
  /\ \/ conf # Absent /\ root' = LoadFromMem(conf) /\ read' = conf
     \/ root' = NoRoot /\ read' = <<>>
  /\ UNCHANGED <<conf, looks, runs, kept>>

-----------------------------------------------------------------------------
(* The Window is made and shown.                                           *)

BoundTo(lo, value, hi) == IF value > hi THEN hi ELSE IF value < lo THEN lo ELSE value

\* ImageAdj::initParam and createSlider
NewSlider(n) ==
  LET min == GetInt(MinKey(n), "image", 0)
      max == GetInt(MaxKey(n), "image", MaxLevel)
      lo  == IF max < min THEN max ELSE min
  IN  [value |-> BoundTo(lo, 0, max), min |-> lo, max |-> max]

HasSize(rect) == rect[2] & rect[3] # 0

\* Window::initParams and window_init
MakeWindow ==
  /\ stage = "window"
  /\ stage' = "running"
  /\ canvas' = [n \in Adjustments |-> GetInt(DefaultKey(n), "image", DefaultLevel)]
  /\ slider' = [n \in Adjustments |-> NewSlider(n)]
  /\ dialog' = FALSE /\ image' = NoImage /\ shown' = Hidden
  /\ LET state == GetInt("main_window_state", "ui", 0)
         text  == GetValue(root, "main_window_rect", "ui")
     IN  \E rect \in Placements :
           IF state \in 1..3 \/ text = Empty
           THEN window' = [state |-> state, rect |-> rect]
           ELSE \E r \in Scanned(text) :
                  window' = [state |-> state, rect |-> IF HasSize(r) THEN r ELSE rect]
  /\ UNCHANGED <<conf, root, runs, read, kept>>

-----------------------------------------------------------------------------
(* While the program runs.                                                 *)

Running == stage = "running"

\* The user moves or resizes the window; window_state is not told.
PlaceWindow ==
  /\ Running
  /\ \E rect \in Placements : window' = [window EXCEPT !.rect = rect]
  /\ UNCHANGED <<conf, root, stage, canvas, slider, dialog, display, runs, read, kept>>

\* Canvas::setImage
LoadImage ==
  /\ Running
  /\ \E size \in Sizes : image' = size /\ shown' = Plain(size)
  /\ UNCHANGED <<conf, root, stage, canvas, slider, dialog, window, runs, read, kept>>

\* The canvas drops its image when a file or a directory is opened; m_disImg
\* stays.
Clean ==
  /\ Running
  /\ image' = NoImage
  /\ UNCHANGED <<conf, root, stage, canvas, slider, dialog, shown, window, runs, read, kept>>

\* r, g and b of pixel i, as if the rows had no padding.
Triple(i) == 3 * i..3 * i + 2

\* lightContrastImage: the loop over the pixels of a copy of the image.
LightContrast(size, light, contrast) ==
  LET pixels == 0..size[1] * size[2] - 1
  IN  [size |-> size, levels |-> <<light, contrast>>,
       rgb |-> [k \in Bits(size) \cup UNION {Triple(i) : i \in pixels} |->
                  Cardinality({i \in pixels : k \in Triple(i)})]]

\* Mutant: the image is made with the values from before the change.
AdjustedBefore(levels) ==
  IF image = NoImage THEN Hidden
  ELSE LightContrast(image, canvas["brightness"], canvas["contrast"])

\* setContrast, setBrightness: m_disImg is made from m_image with both values.
Adjusted(levels) ==
  IF image = NoImage THEN Hidden
  ELSE LightContrast(image, levels["brightness"], levels["contrast"])

\* Mutant: the value is not put into the settings.
ValueChangedOnly(c, n, value) ==
  [c EXCEPT !.slider[n].value = value, !.canvas[n] = value]

\* valueChanged of a slider: the canvas and the settings follow.
ValueChanged(c, n, value) ==
  [c EXCEPT !.slider[n].value = value,
            !.canvas[n] = value,
            !.sets = @ \cup {n}]

\* QSlider::setValue: bounded, and a signal only when the value is another.
SetSlider(c, n, wanted) ==
  LET value == BoundTo(slider[n].min, wanted, slider[n].max)
  IN  IF value = slider[n].value THEN c ELSE ValueChanged(c, n, value)

SetAll(r, levels, sets) ==
  LET Put(rs, n) == UNION {SetValue(t, DefaultKey(n), Text(levels[n]), "image") : t \in rs}
      after == IF "contrast" \in sets THEN Put({r}, "contrast") ELSE {r}
  IN  IF "brightness" \in sets THEN Put(after, "brightness") ELSE after

\* The effect of the signals of one call: c.sets are the sliders that changed.
Apply(c) ==
  /\ slider' = c.slider /\ canvas' = c.canvas
  /\ root' \in SetAll(root, c.canvas, c.sets)
  /\ shown' = IF c.sets = {} THEN shown ELSE Adjusted(c.canvas)

Current == [slider |-> slider, canvas |-> canvas, sets |-> {}]

\* The user moves a slider of the ImageAdj window.
MoveSlider ==
  /\ Running /\ dialog
  /\ \E n \in Adjustments, value \in Levels : Apply(SetSlider(Current, n, value))
  /\ UNCHANGED <<conf, stage, dialog, image, window, runs, read, kept>>

\* The brightness/contrast action: ImageAdj::setParam with the canvas' values.
OpenImageAdj ==
  /\ Running
  /\ Apply(SetSlider(SetSlider(Current, "contrast", canvas["contrast"]),
                     "brightness", canvas["brightness"]))
  /\ dialog' = TRUE
  /\ UNCHANGED <<conf, stage, image, window, runs, read, kept>>

-----------------------------------------------------------------------------
(* The end of main.                                                        *)

\* The window is closed: its state and geometry go into the settings.
EndOfExec ==
  /\ Running
  /\ stage' = "save"
  /\ \E r \in SetValue(root, "main_window_state", Text(window.state), "ui") :
       root' \in SetValue(r, "main_window_rect",
                   Text(<<window.rect[1] - Frame, window.rect[2], window.rect[3]>>), "ui")
  /\ UNCHANGED <<conf, looks, runs, read, kept>>

\* IniParser::SaveAs opens the file, which empties it; the file may not open.
SaveOpens ==
  /\ stage = "save"
  /\ \/ /\ DumpString(root) # <<>>
        /\ conf' = <<>> /\ stage' = "write"
        /\ kept' = [kept EXCEPT !.known = FALSE]
     \/ /\ stage' = "down" /\ UNCHANGED <<conf, kept>>
  /\ UNCHANGED <<root, looks, runs, read>>

SaveWrites ==
  /\ stage = "write"
  /\ stage' = "down"
  /\ conf' = DumpString(root)
  /\ kept' = [known |-> TRUE, canvas |-> canvas, window |-> window]
  /\ UNCHANGED <<root, looks, runs, read>>

\* The process ends without reaching the end of main.
Kill ==
  /\ stage # "down"
  /\ stage' = "down"
  /\ UNCHANGED <<conf, root, looks, runs, read, kept>>

Next ==
  \/ CopyDefault \/ LoadFromFile \/ MakeWindow
  \/ PlaceWindow \/ LoadImage \/ Clean \/ MoveSlider \/ OpenImageAdj
  \/ EndOfExec \/ SaveOpens \/ SaveWrites \/ Kill

Spec == Init /\ [][Next]_vars

-----------------------------------------------------------------------------
(* Properties.                                                             *)

\* A run that reads the file finds what the last run that saved it used: the
\* canvas has its contrast and brightness, the window its state and, when it
\* is shown as a normal window whose width and height have a bit in common
\* (w&h, main.cpp), its geometry, moved by the frame that x() counts and
\* setGeometry does not.  Only a run that is killed while it writes loses it.
SettingsSurvive ==
  [][stage = "window" /\ stage' = "running" /\ kept.known /\ root # NoRoot =>
       /\ canvas' = kept.canvas
       /\ window'.state = kept.window.state
       /\ kept.window.state \notin 1..3 /\ HasSize(kept.window.rect) =>
            window'.rect = [kept.window.rect EXCEPT ![1] = @ - Frame]]_vars

\* Saving changes only the settings that the program writes: the other lines
\* of the file that was read, comments included, come back in their order.
\* Malformed lines are dropped.
LinesKept ==
  LET Other(line) ==
        /\ line.type # "malformed"
        /\ line.type = "kv" => line.label \notin
             {"default_contrast", "default_brightness", "main_window_state", "main_window_rect"}
        /\ line.type = "section" => line.label \notin {"ui", "image"}
  IN  stage \in {"save", "write"} /\ read # <<>> =>
        SelectSeq(DumpString(root), Other) = SelectSeq(read, Other)

\* The value that a reader of a text finds: between the first header of the
\* section (the top of the text for the root) and the next header, the first
\* line with the key.
TextValue(text, key, section) ==
  LET Headers == {i \in DOMAIN text : text[i].type = "section"}
      Named == {i \in Headers : text[i].label = section}
      first == IF section = Empty THEN 0 ELSE Min(Named)
      end == Min({i \in Headers : i > first} \cup {Len(text) + 1})
      lines == {i \in first+1..end-1 : text[i].type = "kv" /\ text[i].label = key}
  IN  IF (section # Empty /\ Named = {}) \/ lines = {} THEN Empty
      ELSE text[Min(lines)].value

SettingKeys ==
  {"main_window_state", "main_window_rect"}
    \cup UNION {{DefaultKey(n), MinKey(n), MaxKey(n)} : n \in Adjustments}

\* GetValue gives the program what a reader of the text finds, also when
\* sections or keys are repeated: of the text that LoadFromMem read, and of
\* the text that DumpString writes after SetValue.
SettingsReadAsText ==
  \A key \in SettingKeys, section \in {"ui", "image", Empty} :
    LET value == GetValue(root, key, section)
    IN  /\ stage = "window" => value = TextValue(read, key, section)
        /\ stage = "write" => value = TextValue(DumpString(root), key, section)

\* Once the ImageAdj window was shown, the canvas has the levels that the
\* settings hold, and each slider shows the canvas' level or the limit next to
\* it (a level below the minimum of a slider that starts there is not told to
\* the canvas, since the slider does not change).
AdjustAgree ==
  Running /\ dialog =>
    \A n \in Adjustments :
      /\ canvas[n] = GetInt(DefaultKey(n), "image", DefaultLevel)
      /\ slider[n].value = BoundTo(slider[n].min, canvas[n], slider[n].max)

\* The image that is shown is as it was loaded, or was made with the canvas'
\* contrast and brightness, both of them.  lightContrastImage then wrote no
\* byte outside of it, none twice, and all of them when the width is a multiple
\* of four.  (Of another image the padding moves the last pixels past the run
\* of the loop.)
ShownFollows ==
  LET bits == Bits(shown.size)
      made == shown.levels # <<>>
  IN  /\ made => shown.levels = <<canvas["brightness"], canvas["contrast"]>>
      /\ DOMAIN shown.rgb = bits
      /\ \A b \in bits : shown.rgb[b] <= 1
      /\ made /\ shown.size[1] % 4 = 0 => \A b \in bits : shown.rgb[b] = 1
=============================================================================
