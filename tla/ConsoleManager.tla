--------------------------- MODULE ConsoleManager ---------------------------
(***************************************************************************)
(* The table of screens and the screen the user is on.  A process has a    *)
(* screen under its name.  The console thread switches screens; the clock  *)
(* thread registers them too, and nothing guards the table: looking a name *)
(* up and inserting it are two steps.                                      *)
(***************************************************************************)
EXTENDS Integers, Sequences, TLC

VARIABLES
    screenTable,        \* name -> screen
    currentConsole,
    previousConsole,
    consoleRunning      \* ConsoleManager::running

screenVars == <<screenTable, currentConsole, previousConsole, consoleRunning>>

MAIN_CONSOLE_NAME == "MAIN_CONSOLE_NAME"

\* A screen carries the index of its process, 0 if it has none.
Screen(name, k) == [name |-> name, process |-> k]
NoScreen        == Screen("", 0)
PrebootScreen   == Screen("PREBOOT_SCREEN", 0)
MainConsole     == Screen(MAIN_CONSOLE_NAME, 0)

HasScreen(name) == name \in DOMAIN screenTable
IsOnMainConsole == currentConsole.name = MAIN_CONSOLE_NAME

WithScreen(t, screen) ==
    [n \in DOMAIN t \cup {screen.name} |-> IF n = screen.name THEN screen ELSE t[n]]
WithoutScreen(t, name) == [n \in DOMAIN t \ {name} |-> t[n]]

\* The first two calls of main.
InitConsoles ==
    /\ screenTable = WithScreen(<<>>, PrebootScreen)
    /\ currentConsole = PrebootScreen
    /\ previousConsole = NoScreen
    /\ consoleRunning = TRUE

\* Fault: the user stays on whatever was shown before.
SwitchScreenLate(name) ==
    /\ HasScreen(name)
    /\ previousConsole' = screenTable[name]
    /\ UNCHANGED <<screenTable, currentConsole, consoleRunning>>

\* A name that is not in the table changes nothing.
SwitchScreen(name) ==
    \/ /\ ~HasScreen(name)
       /\ UNCHANGED screenVars
    \/ /\ HasScreen(name)
       /\ previousConsole' = currentConsole
       /\ currentConsole' = screenTable[name]
       /\ UNCHANGED <<screenTable, consoleRunning>>

\* The second half of RegisterScreen: operator[] replaces what is there.
InsertScreen(screen) ==
    /\ screenTable' = WithScreen(screenTable, screen)
    /\ UNCHANGED <<currentConsole, previousConsole, consoleRunning>>

\* From main after `initialize`: the preboot screen goes, the main one comes.
EnterMainConsole ==
    /\ screenTable' = WithScreen(WithoutScreen(screenTable, PrebootScreen.name), MainConsole)
    /\ previousConsole' = currentConsole
    /\ currentConsole' = MainConsole
    /\ UNCHANGED consoleRunning

\* Always to the main console, whatever the previous one was.
ReturnToPreviousScreen ==
    IF IsOnMainConsole THEN UNCHANGED screenVars ELSE SwitchScreen(MAIN_CONSOLE_NAME)

ExitConsole ==
    /\ consoleRunning' = FALSE
    /\ UNCHANGED <<screenTable, currentConsole, previousConsole>>
=============================================================================
